---- MODULE Spec2Model ----
(***************************************************************************)
(* A model of the Instant-RAG backend: document ingestion into the chunk   *)
(* store (api/routes/project.py, services/document_service.py,             *)
(* services/document_processor.py), the lazily loaded embedding model      *)
(* (services/embedding_service.py) and retrieval for a chat query          *)
(* (services/chat_service.py).                                             *)
(*                                                                         *)
(* Three specifications share the module:                                  *)
(*   Spec       the upload requests, step by step, with failures and a     *)
(*              crash of the process;                                      *)
(*   SpecEmbed  concurrent callers of the shared EmbeddingService;         *)
(*   SpecQuery  process_rag_query over a store filled by uploads.          *)
(***************************************************************************)
EXTENDS Integers, Sequences, FiniteSets, TLC

(***************************************************************************)
(* Bounds of the model.                                                    *)
(***************************************************************************)
MaxFiles == 3        \* files of the upload batch, and sources (files, pages) of one run
MaxWeb == 1          \* web pages ingested in one run
MaxFaults == 1       \* failures of the database, the disk or the embedding backend in one run
MaxCallers == 3      \* concurrent callers of the embedding service
MaxQueryDocs == 2    \* documents ingested before and during a query
MaxTopK == 3         \* largest top_k a query asks for

(***************************************************************************)
(* Values.  NULL is the SQL NULL / Python None of a column that holds a    *)
(* sequence (a vector, a JSON payload); a nullable page number is 0.       *)
(***************************************************************************)
NULL == <<>>
NoPage == 0

ProjectIds == {"p1", "p2"}

\* Vectors are pairs of integers; a unit vector is stored scaled by Unit,
\* so that (3,4) stands for (0.6, 0.8).
Unit == 5
Dot(a, b) == a[1] * b[1] + a[2] * b[2]
Norm(v) == CHOOSE n \in 0..(4 * Unit) : n * n = Dot(v, v)

\* A text is abstracted to what the pipeline observes of it: its length in
\* characters and the raw vector the embedding backend maps it to.
Text(n, v) == [len |-> n, vec |-> v]
TShort == Text(10, <<6, 8>>)
TLong == Text(45, <<5, 0>>)
TOther == Text(21, <<0, 10>>)

(***************************************************************************)
(* Uploaded files.  pages is what text extraction and the splitter yield:  *)
(* for each page the texts of its chunks (semantic_chunk_text), for an     *)
(* unpaginated file one page.  corrupt: the bytes are not a readable file  *)
(* of the declared kind.                                                   *)
(***************************************************************************)
File(name, ext, mime, corrupt, pages) ==
    [name |-> name, ext |-> ext, mime |-> mime, corrupt |-> corrupt, pages |-> pages]

FPdf == File("a.pdf", ".pdf", "application/pdf", FALSE, << <<TShort>>, <<>> >>)
\* Another file of the same name.
FPdfB == File("a.pdf", ".pdf", "application/pdf", FALSE, << <<TLong>> >>)
FBadPdf == File("bad.pdf", ".pdf", "application/pdf", TRUE, <<>>)
FMd == File("b.md", ".md", "text/markdown", FALSE, << <<TShort, TLong>> >>)
FBadDocx == File("c.docx", ".docx", "application/octet-stream", TRUE, <<>>)
FUnknown == File("d.xyz", ".xyz", "application/octet-stream", FALSE, << <<TShort>> >>)
FImage == File("e.png", ".png", "image/png", FALSE, << <<TOther>> >>)

FileKinds == {FPdf, FBadPdf, FBadDocx, FUnknown, FImage}

RECURSIVE SeqsUpTo(_, _)
SeqsUpTo(S, n) ==
    IF n = 0 THEN {<<>>}
    ELSE LET shorter == SeqsUpTo(S, n - 1)
         IN shorter \cup {Append(s, x) : s \in {t \in shorter : Len(t) = n - 1}, x \in S}

Batches == SeqsUpTo(FileKinds, MaxFiles) \ {<<>>}

(***************************************************************************)
(* DocumentProcessor                                                       *)
(***************************************************************************)
StartsWith(s, prefix) == Len(s) >= Len(prefix) /\ SubSeq(s, 1, Len(prefix)) = prefix

determine_source_type(ext, mime) ==
    IF ext = ".pdf" \/ mime = "application/pdf" THEN "pdf"
    ELSE IF ext \in {".md", ".markdown"} \/ mime = "text/markdown" THEN "markdown"
    ELSE IF ext = ".txt" \/ mime = "text/plain" THEN "text"
    ELSE IF ext = ".docx"
            \/ mime = "application/vnd.openxmlformats-officedocument.wordprocessingml.document"
         THEN "docx"
    ELSE IF ext \in {".jpg", ".jpeg", ".png", ".gif", ".bmp", ".webp"}
            \/ StartsWith(mime, "image/")
         THEN "image"
    ELSE "unknown"

Chunk(id, text, page, images, st, name, isImage) ==
    [images |-> images, chunk_id |-> id, chunk_text |-> text, page_number |-> page,
     source_type |-> st, doc_name |-> name, is_image_chunk |-> isImage]

\* The screenshot of page n of a PDF and the label of its chunk.
\* The rendering of a page shows its texts: what of them tells two
\* renderings apart is the length of the first.
Rendering(texts) == IF texts = <<>> THEN 0 ELSE texts[1].len

Screenshot(name, n, texts) ==
    [id |-> ToString(n - 1) \o "_screenshot", base64 |-> <<name, n, Rendering(texts)>>,
     mime_type |-> "png"]
ScreenshotLabel == Text(19, <<0, 0>>)

RECURSIVE TextChunks(_, _, _, _, _)
\* The chunks of one page's texts, numbered from k: "<prefix>_c<k>".
TextChunks(texts, k, prefix, page, f) ==
    IF texts = <<>> THEN <<>>
    ELSE <<Chunk(prefix \o "_c" \o ToString(k), texts[1], page, <<>>, f.st, f.name, FALSE)>>
         \o TextChunks(Tail(texts), k + 1, prefix, page, f)

RECURSIVE PdfPages(_, _, _)
PdfPages(pages, n, name) ==
    IF pages = <<>> THEN <<>>
    ELSE TextChunks(pages[1], 1, name \o "_p" \o ToString(n), n, [name |-> name, st |-> "pdf"])
         \o <<Chunk(name \o "_p" \o ToString(n) \o "_screenshot", ScreenshotLabel, n,
                    <<Screenshot(name, n, pages[1])>>, "pdf", name, TRUE)>>
         \o PdfPages(Tail(pages), n + 1, name)

\* Each processor returns [raised, chunks, pages_processed, swallowed]:
\* raised when the exception leaves process_file, swallowed when the
\* processor caught a failure of its own and returned normally.
Segmented(chunks, n) ==
    [chunks |-> chunks, raised |-> FALSE, pages_processed |-> n, swallowed |-> FALSE]
SegRaised == [chunks |-> <<>>, raised |-> TRUE, pages_processed |-> 0, swallowed |-> FALSE]
SegSwallowed == [chunks |-> <<>>, raised |-> FALSE, pages_processed |-> 0, swallowed |-> TRUE]

process_pdf(f) ==
    IF f.corrupt THEN SegRaised
    ELSE Segmented(PdfPages(f.pages, 1, f.name), Len(f.pages))

AllTexts(f) == IF f.pages = <<>> THEN <<>> ELSE f.pages[1]

process_markdown(f) ==
    Segmented(TextChunks(AllTexts(f), 1, f.name, 1, [name |-> f.name, st |-> "markdown"]), 1)

process_text(f) ==
    Segmented(TextChunks(AllTexts(f), 1, f.name, 1, [name |-> f.name, st |-> "text"]), 1)

process_docx(f) ==
    IF f.corrupt THEN SegSwallowed
    ELSE Segmented(TextChunks(AllTexts(f), 1, f.name, 1, [name |-> f.name, st |-> "docx"]), 1)

\* An image is one page; OCR that fails or finds nothing leaves the
\* placeholder text.  Every chunk carries the image itself.
NoExtractableText == Text(32, <<0, 10>>)

RECURSIVE ImageChunks(_, _, _)
ImageChunks(texts, k, f) ==
    IF texts = <<>> THEN <<>>
    ELSE <<Chunk(f.name \o "_c" \o ToString(k), texts[1], 1,
                 <<[id |-> "0", base64 |-> <<f.name>>, mime_type |-> "image/" \o SubSeq(f.ext, 2, Len(f.ext))]>>,
                 "image", f.name, FALSE)>>
         \o ImageChunks(Tail(texts), k + 1, f)

process_image(f) ==
    LET chunks == IF f.corrupt \/ AllTexts(f) = <<>> THEN <<NoExtractableText>> ELSE AllTexts(f)
    IN Segmented(ImageChunks(chunks, 1, f), 1)

process_file(f) ==
    LET source_type == determine_source_type(f.ext, f.mime)
    IN CASE source_type = "pdf" -> process_pdf(f)
         [] source_type = "markdown" -> process_markdown(f)
         [] source_type = "text" -> process_text(f)
         [] source_type = "docx" -> process_docx(f)
         [] source_type = "image" -> process_image(f)
         [] OTHER -> Segmented(<<>>, 0)

(***************************************************************************)
(* Web pages.  A URL is what urlparse makes of it; query is the list of    *)
(* its key=value pairs.  reachable: the GET succeeds; texts: the chunks    *)
(* the cleaned page text splits into.                                      *)
(***************************************************************************)
Url(scheme, netloc, path, query, fragment) ==
    [scheme |-> scheme, netloc |-> netloc, path |-> path, query |-> query,
     fragment |-> fragment, params |-> ""]

RECURSIVE RStrip(_, _)
RStrip(s, ch) ==
    IF Len(s) > 0 /\ SubSeq(s, Len(s), Len(s)) = ch
    THEN RStrip(SubSeq(s, 1, Len(s) - 1), ch)
    ELSE s

RECURSIVE ReplaceAll(_, _, _)
ReplaceAll(s, old, new) ==
    IF Len(s) < Len(old) THEN s
    ELSE IF SubSeq(s, 1, Len(old)) = old
         THEN new \o ReplaceAll(SubSeq(s, Len(old) + 1, Len(s)), old, new)
         ELSE SubSeq(s, 1, 1) \o ReplaceAll(SubSeq(s, 2, Len(s)), old, new)

\* The first position at or after i where s has the character ch, 0 if none.
RECURSIVE Find(_, _, _)
Find(s, ch, i) ==
    IF i > Len(s) THEN 0
    ELSE IF SubSeq(s, i, i) = ch THEN i ELSE Find(s, ch, i + 1)

\* The last position where s has the character ch, 0 if none.
RECURSIVE RFind(_, _, _)
RFind(s, ch, i) ==
    IF i = 0 THEN 0
    ELSE IF SubSeq(s, i, i) = ch THEN i ELSE RFind(s, ch, i - 1)

Before(s, i) == IF i = 0 THEN s ELSE SubSeq(s, 1, i - 1)
After(s, i) == IF i = 0 THEN "" ELSE SubSeq(s, i + 1, Len(s))

\* unquote_plus and quote_plus, over texts whose one reserved character is
\* the space.
unquote_plus(s) == ReplaceAll(ReplaceAll(s, "+", " "), "%20", " ")
quote_plus(s) == ReplaceAll(s, " ", "+")

\* parse_qsl's split of the query string into name=value fields; a field
\* without "=" has the blank value.
RECURSIVE Fields(_)
Fields(qs) ==
    IF qs = "" THEN <<>>
    ELSE LET amp == Find(qs, "&", 1)
             field == Before(qs, amp)
             eq == Find(field, "=", 1)
         IN (IF field = "" THEN <<>> ELSE << <<Before(field, eq), After(field, eq)>> >>)
            \o Fields(After(qs, amp))

\* urlsplit of scheme://netloc/path?query#fragment
urlsplit(s) ==
    LET colon == Find(s, ":", 1)
        has_netloc == colon > 0 /\ SubSeq(s, colon + 1, colon + 2) = "//"
        rest == IF has_netloc THEN SubSeq(s, colon + 3, Len(s))
                ELSE IF colon > 0 THEN After(s, colon) ELSE s
        hash == Find(rest, "#", 1)
        no_fragment == Before(rest, hash)
        mark == Find(no_fragment, "?", 1)
        no_query == Before(no_fragment, mark)
        slash == Find(no_query, "/", 1)
    IN [scheme |-> IF colon > 0 THEN Before(s, colon) ELSE "",
        netloc |-> IF has_netloc THEN Before(no_query, slash) ELSE "",
        path |-> IF ~has_netloc THEN no_query
                 ELSE IF slash = 0 THEN "" ELSE SubSeq(no_query, slash, Len(no_query)),
        query |-> After(no_fragment, mark),
        fragment |-> After(rest, hash)]

\* urlparse: urlsplit, then _splitparams takes the parameters of the last
\* path segment; the query is kept as its fields.
urlparse(s) ==
    LET split == urlsplit(s)
        last == RFind(split.path, "/", Len(split.path))
        semi == Find(split.path, ";", IF last = 0 THEN 1 ELSE last)
    IN [scheme |-> split.scheme, netloc |-> split.netloc, path |-> Before(split.path, semi),
        query |-> Fields(split.query), fragment |-> split.fragment,
        params |-> After(split.path, semi)]

\* parse_qs: the values of each key, keys in order of first appearance;
\* pairs with a blank value are dropped.
RECURSIVE Keys(_)
Keys(pairs) ==
    IF pairs = <<>> THEN <<>>
    ELSE LET rest == Keys(Tail(pairs))
             k == pairs[1][1]
         IN IF pairs[1][2] = "" THEN rest
            ELSE <<k>> \o SelectSeq(rest, LAMBDA x : x # k)

parse_qs(fields) ==
    LET pairs == [i \in DOMAIN fields |->
                    <<unquote_plus(fields[i][1]), unquote_plus(fields[i][2])>>]
        ks == Keys(pairs)
    IN [i \in 1..Len(ks) |->
          <<ks[i], SelectSeq(pairs, LAMBDA kv : kv[1] = ks[i] /\ kv[2] # "")>>]

\* urlencode(params, doseq=True): key=value pairs again, key by key.
RECURSIVE urlencode(_)
urlencode(params) ==
    IF params = <<>> THEN <<>>
    ELSE [i \in DOMAIN params[1][2] |->
            <<quote_plus(params[1][2][i][1]), quote_plus(params[1][2][i][2])>>]
         \o urlencode(Tail(params))

RECURSIVE JoinPairs(_)
JoinPairs(pairs) ==
    IF pairs = <<>> THEN ""
    ELSE pairs[1][1] \o "=" \o pairs[1][2]
         \o (IF Len(pairs) > 1 THEN "&" ELSE "") \o JoinPairs(Tail(pairs))

\* urlunparse
urlunparse(u) ==
    (IF u.scheme # "" THEN u.scheme \o "://" ELSE "")
    \o u.netloc \o u.path
    \o (IF u.params # "" THEN ";" \o u.params ELSE "")
    \o (IF u.query # <<>> THEN "?" \o JoinPairs(u.query) ELSE "")
    \o (IF u.fragment # "" THEN "#" \o u.fragment ELSE "")

\* DocumentProcessor.normalize_url, as the URL it stands for.
normalize_url(u) ==
    LET scheme == IF u.scheme \in {"http", "https"} THEN "https" ELSE u.scheme
        stripped == RStrip(u.path, "/")
        path == IF stripped = "" THEN "/" ELSE stripped
        filtered == SelectSeq(parse_qs(u.query), LAMBDA kv : ~StartsWith(kv[1], "utm_"))
    IN [scheme |-> scheme, netloc |-> u.netloc, path |-> path, query |-> urlencode(filtered),
        fragment |-> "", params |-> u.params]

validate_url(u) == u.scheme # "" /\ u.netloc # ""

Page(url, title, reachable, texts) ==
    [name |-> urlunparse(url), mime |-> "text/html", texts |-> texts, url |-> url,
     title |-> title, reachable |-> reachable]

WOk == Page(Url("http", "a.com", "/x/", << <<"utm_source", "y">> >>, ""), "X", TRUE, <<TShort>>)
WDown == Page(Url("https", "b.org", "/", <<>>, "top"), "", FALSE, <<>>)

WebPages == {WOk, WDown}

\* DocumentProcessor.process_web_content
process_web_content(w) ==
    IF ~validate_url(w.url) \/ ~w.reachable THEN SegRaised
    ELSE LET normalized_url == urlunparse(normalize_url(w.url))
             prefix == ReplaceAll(ReplaceAll(normalized_url, "://", "_"), "/", "_")
         IN Segmented(TextChunks(w.texts, 1, prefix, 1,
                                 [name |-> normalized_url, st |-> "web"]), 1)

(***************************************************************************)
(* The database (one PostgreSQL instance), the request's SQLAlchemy        *)
(* session, and the one upload request in progress.                        *)
(***************************************************************************)
VARIABLES
    projects,             \* ids of the rows of table projects
    documents,            \* table documents; a document's id is its index
    rag_chunks,           \* table rag_chunks, committed rows in insertion order
    session,              \* rows added to the session and not yet committed
    pc,                   \* where the request handler stands
    kind,                 \* "upload" (upload_documents) or "web" (upload_web_content)
    project_id,           \* the request's project_id
    files,                \* the request's files (for "web": the one page)
    idx,                  \* the file the loop of upload_documents is at
    document,             \* id of the document save_document created, 0 before
    chunks,               \* what process_file returned for it
    embeddings,           \* the normalized embeddings of its regular chunks
    documents_processed,  \* upload_documents' list of processing results
    pages_processed,      \* the page count process_file returned
    total_chunks,         \* upload_documents' counter
    response,             \* the response sent, NoResponse before
    outcome,              \* history: per file, how save_document ended
    submitted,            \* history: files and web pages handed in so far
    faults                \* history: failures of the environment so far

\* EmbeddingService._instance and its callers.
VARIABLES
    model,                \* _model: None or the SentenceTransformer
    model_loaded,         \* _model_loaded
    model_loading,        \* _model_loading
    load_lock,            \* _load_lock: its holder, 0 when free
    at,                   \* where each caller is
    constructing,         \* callers whose thread is inside SentenceTransformer(...)
    constructed           \* history: constructions that returned a model

\* One request of ChatService.process_rag_query.
VARIABLES
    qpc,                  \* where the request is
    query,                \* project_id, question, top_k and config's max_tokens
    question_embedding,   \* normalized_question_embedding
    text_chunks,          \* rows of the similarity query
    image_chunks_found,   \* rows of the page-correlated image query
    citations,
    context_parts,
    total_tokens,
    llm_calls,            \* history: calls of llm_service.generate_response
    llm_response,         \* the text that generate_response returned
    answer_json,          \* what extract_valid_response_json made of it
    error,                \* the exception that "except Exception as e" caught
    answer

\* What a project owns besides its documents and chunks.
VARIABLES
    chat_messages,        \* table chat_messages
    email_settings,       \* table email_settings, one row per project at most
    deleted               \* history: projects deleted and the rows that went with them

dbVars == <<projects, documents, rag_chunks, session>>
reqVars == <<pc, kind, project_id, files, idx, document, chunks, embeddings,
             pages_processed, documents_processed, total_chunks, response, outcome,
             submitted, faults>>

embedVars == <<model, model_loaded, model_loading, load_lock, at, constructing, constructed>>

queryVars == <<qpc, query, question_embedding, text_chunks, image_chunks_found, citations,
               context_parts, total_tokens, llm_calls, llm_response, answer_json, error,
               answer>>

storeVars == <<chat_messages, email_settings, deleted>>

\* The accounts (api/routes/auth.py).
VARIABLES
    users,                \* table users
    auth_response         \* the last request to /auth and the status it was answered with

authVars == <<users, auth_response>>

\* The event loop of the server process and the requests it serves.
VARIABLES
    requests,             \* the requests: what each asks for and how far its handler is
    running,              \* the request whose coroutine occupies the event loop, 0 when none
    clock                 \* datetime.utcnow(), as a count of the instants read so far

loopVars == <<requests, running, clock>>

otherThanIngest == <<embedVars, queryVars, storeVars, authVars, loopVars>>
otherThanEmbed == <<dbVars, reqVars, queryVars, storeVars, authVars, loopVars>>
otherThanQuery == <<dbVars, reqVars, embedVars, storeVars, authVars, loopVars>>
otherThanStore == <<reqVars, embedVars, queryVars, authVars, loopVars>>
otherThanAuth == <<dbVars, reqVars, embedVars, queryVars, storeVars, loopVars>>
otherThanLoop == <<dbVars, reqVars, embedVars, queryVars, authVars>>

NoResponse == [status |-> 0]

\* History of one file of the batch: result is "none" until save_document has
\* returned ("returned") or raised ("raised"); doc is the document it created;
\* failed records that segmentation, embedding or chunk storage failed.
NoOutcome == [result |-> "none", doc |-> 0, failed |-> FALSE]

InitIngest ==
    /\ projects = {}
    /\ documents = <<>>
    /\ rag_chunks = <<>>
    /\ session = <<>>
    /\ pc = "idle"
    /\ kind = "upload"
    /\ project_id = "p1"
    /\ files = <<>>
    /\ idx = 0
    /\ document = 0
    /\ chunks = <<>>
    /\ embeddings = <<>>
    /\ pages_processed = 0
    /\ documents_processed = <<>>
    /\ total_chunks = 0
    /\ response = NoResponse
    /\ outcome = <<>>
    /\ submitted = [files |-> 0, web |-> 0]
    /\ faults = 0

(***************************************************************************)
(* Database and embedding helpers.                                         *)
(***************************************************************************)
\* Document(...): src is the content uploaded for the document (what
\* save_document writes under "<id>_<name>"), kept to state what its chunk
\* set is.
NewDocument(id, name, type, project, src) ==
    [name |-> name, id |-> id, project_id |-> project, status |-> "pending",
     type |-> type, src |-> src]

\* The UPDATE without its WHERE clause: every document takes the status.
update_every_document_status(docs, id, status) ==
    [i \in DOMAIN docs |-> [docs[i] EXCEPT !.status = status]]

\* UPDATE documents SET status = :status WHERE id = :document_id
update_document_status(docs, id, status) == [docs EXCEPT ![id].status = status]

\* AsyncSession.commit(): the pending rows are flushed and become visible.
db_commit(store, sess) == store \o sess

\* A session that would keep its pending rows when the transaction is left
\* by an exception; the next commit would flush them.
keep_pending(sess) == sess

\* The rollback that leaving "async with db.begin()" by an exception does,
\* and the one the end of the session does to anything still pending.
db_rollback(sess) == <<>>

\* json.dumps of a value: a string, which is not the value itself.
json_dumps(v) == <<"json", v>>
json_loads(j) == j[2]

\* EmbeddingService._generate_embeddings_sync: the backend's raw vector.
encode(text) == text.vec

\* DocumentService._normalize_embedding
normalize_embedding(embedding) ==
    LET norm == Norm(embedding)
    IN IF norm > 0
       THEN <<(embedding[1] * Unit) \div norm, (embedding[2] * Unit) \div norm>>
       ELSE embedding

regular_chunks(cs) == SelectSeq(cs, LAMBDA c : ~c.is_image_chunk)
image_chunks(cs) == SelectSeq(cs, LAMBDA c : c.is_image_chunk)

RagChunk(doc, chunk, embedding, images_json) ==
    [chunk_id |-> chunk.chunk_id, chunk_text |-> chunk.chunk_text,
     page_number |-> chunk.page_number, source_type |-> chunk.source_type,
     doc_name |-> chunk.doc_name, project_id |-> doc.project_id, embedding |-> embedding,
     document_id |-> doc.id, images_base64 |-> images_json]

\* The rows process_document adds for a document, in the order it adds them:
\* the regular chunks with their embeddings, then the image chunks without.
ChunkRows(doc, cs, embs) ==
    LET reg == regular_chunks(cs)
        img == image_chunks(cs)
    IN [i \in 1..Len(reg) |-> RagChunk(doc, reg[i], embs[i], NULL)]
       \o [i \in 1..Len(img) |->
             RagChunk(doc, img[i], NULL,
                      IF img[i].images # <<>> THEN json_dumps(img[i].images) ELSE NULL)]

Embeddings(cs) ==
    LET reg == regular_chunks(cs)
    IN [i \in 1..Len(reg) |-> normalize_embedding(encode(reg[i].chunk_text))]

(***************************************************************************)
(* upload_documents and DocumentService.save_document, step by step.  A    *)
(* step that awaits the database, the disk or the embedding backend may    *)
(* fail (ok = FALSE): the exception it raises propagates as in the code.   *)
(***************************************************************************)
\* The outcomes of a step that may fail, within the run's budget of failures.
Outcomes == IF faults < MaxFaults THEN {TRUE, FALSE} ELSE {TRUE}
Fault(ok) == faults' = IF ok THEN faults ELSE faults + 1

\* POST /project/create
CreateProject(p) ==
    /\ pc = "idle"
    /\ submitted = [files |-> 0, web |-> 0]
    /\ p \notin projects
    /\ projects' = projects \cup {p}
    /\ UNCHANGED <<documents, rag_chunks, session>>
    /\ UNCHANGED reqVars
    /\ UNCHANGED otherThanIngest

StartUpload(p, batch) ==
    /\ pc = "idle"
    /\ submitted.files = 0
    /\ submitted.web + Len(batch) <= MaxFiles
    /\ submitted' = [submitted EXCEPT !.files = @ + Len(batch)]
    /\ pc' = "get_project"
    /\ kind' = "upload"
    /\ project_id' = p
    /\ files' = batch
    /\ idx' = 1
    /\ outcome' = [i \in 1..Len(batch) |-> NoOutcome]
    /\ response' = NoResponse
    /\ documents_processed' = <<>>
    /\ total_chunks' = 0
    /\ UNCHANGED <<document, chunks, embeddings, pages_processed, faults>>
    /\ UNCHANGED dbVars
    /\ UNCHANGED otherThanIngest

\* The handler replies; the request's session ends.
Reply(r) ==
    /\ response' = r
    /\ pc' = "idle"
    /\ idx' = 0
    /\ document' = 0
    /\ chunks' = <<>>
    /\ embeddings' = <<>>
    /\ pages_processed' = 0

\* project_service.get_project and the 404 of a project that is not there.
GetProject ==
    /\ pc = "get_project"
    /\ \E ok \in Outcomes :
         /\ Fault(ok)
         /\ IF ~ok
            THEN Reply([status |-> 500]) /\ UNCHANGED <<documents_processed, total_chunks, outcome>>
            ELSE IF project_id \notin projects
            THEN Reply([status |-> 404]) /\ UNCHANGED <<documents_processed, total_chunks, outcome>>
            ELSE /\ pc' = (IF kind = "upload" THEN "file_read" ELSE "create")
                 /\ UNCHANGED <<idx, document, chunks, embeddings, pages_processed,
                                documents_processed, total_chunks, response, outcome>>
    /\ UNCHANGED <<submitted, kind, project_id, files>>
    /\ UNCHANGED dbVars
    /\ UNCHANGED otherThanIngest

\* A loop that an exception would leave ("break" in place of "continue").
BreakAfterError(i, n) == n + 1

\* "except Exception as e: ... continue": the loop goes on with the next file.
ContinueAfterError(i, n) == i + 1

LoopTo(i) ==
    /\ idx' = i
    /\ pc' = (IF i > Len(files) THEN "respond" ELSE "file_read")
    /\ document' = 0
    /\ chunks' = <<>>
    /\ embeddings' = <<>>
    /\ pages_processed' = 0

\* An exception leaves save_document (or the read before it) with history o.
\* upload_web_content turns it into a 500.
Raise(o) ==
    /\ outcome' = [outcome EXCEPT ![idx] = [o EXCEPT !.result = "raised"]]
    /\ IF kind = "upload"
       THEN LoopTo(ContinueAfterError(idx, Len(files))) /\ UNCHANGED response
       ELSE Reply([status |-> 500])
    /\ UNCHANGED <<documents_processed, total_chunks>>

\* A process_document that reports a document without chunks as well.
ProcessingResultsOfEmpty(doc, cs, pages) ==
    <<[pages_processed |-> pages, document_name |-> doc.name,
       document_type |-> IF cs = <<>> THEN "unknown" ELSE cs[1].source_type,
       chunks_created |-> Len(cs)]>>

\* process_document's return value.
ProcessingResults(doc, cs, pages) ==
    IF cs = <<>> THEN <<>>
    ELSE <<[pages_processed |-> pages, document_name |-> doc.name,
            document_type |-> cs[1].source_type, chunks_created |-> Len(cs)]>>

RECURSIVE SumChunks(_)
SumChunks(results) ==
    IF results = <<>> THEN 0 ELSE results[1].chunks_created + SumChunks(Tail(results))

\* save_document returns (document, processing_results) to upload_documents;
\* save_web_content returns (document, title, chunks_created).
Return(o, results) ==
    /\ outcome' = [outcome EXCEPT ![idx] = [o EXCEPT !.result = "returned"]]
    /\ IF kind = "upload"
       THEN /\ documents_processed' = documents_processed \o results
            /\ total_chunks' = total_chunks + SumChunks(results)
            /\ LoopTo(idx + 1)
            /\ UNCHANGED response
       ELSE /\ Reply([title |-> files[idx].title, status |-> 200,
                      chunks_created |-> SumChunks(results)])
            /\ UNCHANGED <<documents_processed, total_chunks>>

\* content = await file.read(); await file.seek(0)
FileRead ==
    /\ pc = "file_read"
    /\ \E ok \in Outcomes :
         /\ Fault(ok)
         /\ IF ok
            THEN /\ pc' = "create"
                 /\ UNCHANGED <<idx, document, chunks, embeddings, pages_processed,
                                documents_processed, total_chunks, response, outcome>>
            ELSE Raise(outcome[idx])
    /\ UNCHANGED <<submitted, kind, project_id, files>>
    /\ UNCHANGED dbVars
    /\ UNCHANGED otherThanIngest

\* db.add(document); commit; refresh: the row exists, in status pending.
CreateDocument ==
    /\ pc = "create"
    /\ \E ok \in Outcomes :
         /\ Fault(ok)
         /\ IF ok
            THEN LET id == Len(documents) + 1
                     f == files[idx]
                 IN /\ documents' = Append(documents,
                                           NewDocument(id, f.name, f.mime, project_id, f))
                    /\ rag_chunks' = db_commit(rag_chunks, session)
                    /\ session' = <<>>
                    /\ document' = id
                    /\ outcome' = [outcome EXCEPT ![idx].doc = id]
                    /\ pc' = (IF kind = "upload" THEN "write" ELSE "set_processing")
                    /\ UNCHANGED <<idx, chunks, embeddings, pages_processed,
                                   documents_processed, total_chunks, response>>
            ELSE /\ Raise(outcome[idx])
                 /\ session' = db_rollback(session)
                 /\ UNCHANGED <<documents, rag_chunks>>
    /\ UNCHANGED <<submitted, kind, project_id, files, projects>>
    /\ UNCHANGED otherThanIngest

\* os.makedirs; aiofiles.open(file_path, "wb"); f.write(content)
WriteFile ==
    /\ pc = "write"
    /\ \E ok \in Outcomes :
         /\ Fault(ok)
         /\ IF ok
            THEN /\ pc' = "set_processing"
                 /\ UNCHANGED <<idx, document, chunks, embeddings, pages_processed,
                                documents_processed, total_chunks, response, outcome>>
            ELSE Raise(outcome[idx])
    /\ UNCHANGED <<submitted, kind, project_id, files>>
    /\ UNCHANGED dbVars
    /\ UNCHANGED otherThanIngest

\* update_document_status(PROCESSING), before the try block.
SetProcessing ==
    /\ pc = "set_processing"
    /\ \E ok \in Outcomes :
         /\ Fault(ok)
         /\ IF ok
            THEN /\ documents' = update_document_status(documents, document, "processing")
                 /\ rag_chunks' = db_commit(rag_chunks, session)
                 /\ session' = <<>>
                 /\ pc' = "segment"
                 /\ UNCHANGED <<idx, document, chunks, embeddings, pages_processed,
                                documents_processed, total_chunks, response, outcome>>
            ELSE /\ Raise(outcome[idx])
                 /\ session' = db_rollback(session)
                 /\ UNCHANGED <<documents, rag_chunks>>
    /\ UNCHANGED <<submitted, kind, project_id, files, projects>>
    /\ UNCHANGED otherThanIngest

\* process_document / process_web_content: segmentation.  No chunks: the
\* function returns at once and the caller marks the document completed.
Segment ==
    /\ pc = "segment"
    /\ LET seg == IF kind = "upload" THEN process_file(files[idx])
                  ELSE process_web_content(files[idx])
       IN /\ outcome' = [outcome EXCEPT ![idx].failed = seg.raised \/ seg.swallowed]
          /\ IF seg.raised
             THEN pc' = "set_error" /\ UNCHANGED <<chunks, pages_processed>>
             ELSE /\ pc' = (IF seg.chunks = <<>> THEN "set_completed" ELSE "embed")
                  /\ chunks' = seg.chunks
                  /\ pages_processed' = seg.pages_processed
    /\ UNCHANGED <<submitted, kind, project_id, files, idx, document, embeddings,
                   documents_processed, total_chunks, response, faults>>
    /\ UNCHANGED dbVars
    /\ UNCHANGED otherThanIngest

\* embedding_service.generate_embeddings(chunk_texts), then normalization.
Embed ==
    /\ pc = "embed"
    /\ \E ok \in Outcomes :
         /\ Fault(ok)
         /\ IF ok
            THEN /\ embeddings' = Embeddings(chunks)
                 /\ pc' = "add"
                 /\ UNCHANGED outcome
            ELSE /\ outcome' = [outcome EXCEPT ![idx].failed = TRUE]
                 /\ pc' = "set_error"
                 /\ UNCHANGED embeddings
    /\ UNCHANGED <<submitted, kind, project_id, files, idx, document, chunks, pages_processed,
                   documents_processed, total_chunks, response>>
    /\ UNCHANGED dbVars
    /\ UNCHANGED otherThanIngest

\* Inside "async with db.begin()": one db.add(rag_chunk).  An exception
\* leaves the block, which rolls the transaction back.
AddChunk ==
    /\ pc = "add"
    /\ LET rows == ChunkRows(documents[document], chunks, embeddings)
       IN /\ Len(session) < Len(rows)
          /\ \E ok \in Outcomes :
               /\ Fault(ok)
               /\ IF ok
                  THEN /\ session' = Append(session, rows[Len(session) + 1])
                       /\ UNCHANGED <<pc, outcome>>
                  ELSE /\ session' = db_rollback(session)
                       /\ outcome' = [outcome EXCEPT ![idx].failed = TRUE]
                       /\ pc' = "set_error"
    /\ UNCHANGED <<submitted, kind, project_id, files, idx, document, chunks, embeddings,
                   pages_processed, documents_processed, total_chunks, response>>
    /\ UNCHANGED <<projects, documents, rag_chunks>>
    /\ UNCHANGED otherThanIngest

\* The end of "async with db.begin()": flush and commit of all the rows.
Commit ==
    /\ pc = "add"
    /\ Len(session) = Len(ChunkRows(documents[document], chunks, embeddings))
    /\ \E ok \in Outcomes :
         /\ Fault(ok)
         /\ IF ok
            THEN /\ rag_chunks' = db_commit(rag_chunks, session)
                 /\ session' = <<>>
                 /\ pc' = (IF kind = "upload" THEN "set_completed" ELSE "rename")
                 /\ UNCHANGED outcome
            ELSE /\ session' = db_rollback(session)
                 /\ outcome' = [outcome EXCEPT ![idx].failed = TRUE]
                 /\ pc' = "set_error"
                 /\ UNCHANGED rag_chunks
    /\ UNCHANGED <<submitted, kind, project_id, files, idx, document, chunks, embeddings,
                   pages_processed, documents_processed, total_chunks, response>>
    /\ UNCHANGED <<projects, documents>>
    /\ UNCHANGED otherThanIngest

\* process_web_content: UPDATE documents SET name = :title; commit.
Rename ==
    /\ pc = "rename"
    /\ \E ok \in Outcomes :
         /\ Fault(ok)
         /\ IF ok
            THEN /\ documents' = [documents EXCEPT ![document].name = files[idx].title]
                 /\ rag_chunks' = db_commit(rag_chunks, session)
                 /\ session' = <<>>
                 /\ pc' = "set_completed"
            ELSE /\ session' = db_rollback(session)
                 /\ pc' = "set_error"
                 /\ UNCHANGED <<documents, rag_chunks>>
    /\ UNCHANGED <<submitted, kind, project_id, files, idx, document, chunks, embeddings,
                   pages_processed, documents_processed, total_chunks, response, outcome>>
    /\ UNCHANGED projects
    /\ UNCHANGED otherThanIngest

\* update_document_status(COMPLETED) and the return; its failure is caught
\* by the except clause like any other.
SetCompleted ==
    /\ pc = "set_completed"
    /\ \E ok \in Outcomes :
         /\ Fault(ok)
         /\ IF ok
            THEN /\ documents' = update_document_status(documents, document, "completed")
                 /\ rag_chunks' = db_commit(rag_chunks, session)
                 /\ session' = <<>>
                 /\ Return(outcome[idx],
                           ProcessingResults(documents[document], chunks, pages_processed))
            ELSE /\ session' = db_rollback(session)
                 /\ pc' = "set_error"
                 /\ UNCHANGED <<documents, rag_chunks, idx, document, chunks, embeddings,
                                pages_processed, documents_processed, total_chunks,
                                response, outcome>>
    /\ UNCHANGED <<submitted, kind, project_id, files, projects>>
    /\ UNCHANGED otherThanIngest

\* except Exception: update_document_status(ERROR); raise
SetError ==
    /\ pc = "set_error"
    /\ \E ok \in Outcomes :
         /\ Fault(ok)
         /\ IF ok
            THEN /\ documents' = update_document_status(documents, document, "error")
                 /\ rag_chunks' = db_commit(rag_chunks, session)
                 /\ session' = <<>>
            ELSE /\ session' = db_rollback(session)
                 /\ UNCHANGED <<documents, rag_chunks>>
         /\ Raise(outcome[idx])
    /\ UNCHANGED <<submitted, kind, project_id, files, projects>>
    /\ UNCHANGED otherThanIngest

\* The loop is over: upload_documents returns its summary.
Respond ==
    /\ pc = "respond"
    /\ Reply([documents_processed |-> documents_processed, total_chunks |-> total_chunks,
              status |-> 200, success |-> TRUE])
    /\ UNCHANGED <<submitted, kind, project_id, files, documents_processed, total_chunks,
                   outcome, faults>>
    /\ UNCHANGED dbVars
    /\ UNCHANGED otherThanIngest

\* POST /project/upload_web
StartWeb(p, page) ==
    /\ pc = "idle"
    /\ submitted.web < MaxWeb
    /\ submitted' = [submitted EXCEPT !.web = @ + 1]
    /\ pc' = "get_project"
    /\ kind' = "web"
    /\ project_id' = p
    /\ files' = <<page>>
    /\ idx' = 1
    /\ outcome' = <<NoOutcome>>
    /\ response' = NoResponse
    /\ documents_processed' = <<>>
    /\ total_chunks' = 0
    /\ UNCHANGED <<document, chunks, embeddings, pages_processed, faults>>
    /\ UNCHANGED dbVars
    /\ UNCHANGED otherThanIngest

\* The process dies: what the session had not committed is gone, and so is
\* everything the handler held in memory.
Crash ==
    /\ pc \notin {"idle", "crashed"}
    /\ pc' = "crashed"
    /\ session' = db_rollback(session)
    /\ files' = <<>>
    /\ idx' = 0
    /\ document' = 0
    /\ chunks' = <<>>
    /\ embeddings' = <<>>
    /\ pages_processed' = 0
    /\ documents_processed' = <<>>
    /\ total_chunks' = 0
    /\ response' = NoResponse
    /\ outcome' = <<>>
    /\ UNCHANGED <<projects, documents, rag_chunks>>
    /\ UNCHANGED <<submitted, kind, project_id, faults>>
    /\ UNCHANGED otherThanIngest

NextIngest ==
    \/ \E p \in ProjectIds : CreateProject(p)
    \/ \E p \in ProjectIds, batch \in Batches : StartUpload(p, batch)
    \/ \E p \in ProjectIds, page \in WebPages : StartWeb(p, page)
    \/ GetProject
    \/ FileRead
    \/ CreateDocument
    \/ WriteFile
    \/ SetProcessing
    \/ Segment
    \/ Embed
    \/ AddChunk
    \/ Commit
    \/ Rename
    \/ SetCompleted
    \/ SetError
    \/ Respond
    \/ Crash

(***************************************************************************)
(* EmbeddingService: the lazy load of the model by concurrent callers of   *)
(* generate_embedding / generate_embeddings.  A caller is a coroutine on   *)
(* the event loop; "lambda: self.model" and _generate_embedding(s)_sync    *)
(* run in threads of the default executor, so their steps interleave.      *)
(***************************************************************************)
Callers == 1..MaxCallers
None == "None"

\* cls._instance as __new__ leaves it; no caller has arrived.
InitEmbed ==
    /\ model = None
    /\ model_loaded = FALSE
    /\ model_loading = FALSE
    /\ load_lock = 0
    /\ at = [c \in Callers |-> "idle"]
    /\ constructing = {}
    /\ constructed = 0

At(c, from, to) == at[c] = from /\ at' = [at EXCEPT ![c] = to]

\* generate_embedding(text) / generate_embeddings(texts) is called.
Call(c) ==
    /\ At(c, "idle", "ensure")
    /\ UNCHANGED <<model, model_loaded, model_loading, load_lock, constructing, constructed>>
    /\ UNCHANGED otherThanEmbed

\* ensure_model_loaded: "if self._model_loaded: return"
CheckLoaded(c) ==
    /\ at[c] = "ensure"
    /\ at' = [at EXCEPT ![c] = IF model_loaded THEN "ensured" ELSE "acquire"]
    /\ UNCHANGED <<model, model_loaded, model_loading, load_lock, constructing, constructed>>
    /\ UNCHANGED otherThanEmbed

\* "async with self._load_lock": the caller waits until the lock is free.
Acquire(c) ==
    /\ load_lock = 0
    /\ At(c, "acquire", "locked")
    /\ load_lock' = c
    /\ UNCHANGED <<model, model_loaded, model_loading, constructing, constructed>>
    /\ UNCHANGED otherThanEmbed

\* Under the lock: "if not self._model_loaded and not self._model_loading";
\* otherwise the block ends, the lock is released and the function returns.
TestUnderLock(c) ==
    /\ at[c] = "locked"
    /\ IF ~model_loaded /\ ~model_loading
       THEN /\ model_loading' = TRUE
            /\ at' = [at EXCEPT ![c] = "load_thread"]
            /\ UNCHANGED load_lock
       ELSE /\ at' = [at EXCEPT ![c] = "ensured"]
            /\ load_lock' = 0
            /\ UNCHANGED model_loading
    /\ UNCHANGED <<model, model_loaded, constructing, constructed>>
    /\ UNCHANGED otherThanEmbed

\* The model property in an executor thread: "if self._model is None".
\* thread is "load" for the load of ensure_model_loaded and "encode" for
\* self.model.encode of _generate_embedding(s)_sync.
ModelTest(c, thread) ==
    /\ at[c] = thread \o "_thread"
    /\ IF model = None
       THEN /\ at' = [at EXCEPT ![c] = thread \o "_construct"]
            /\ constructing' = constructing \cup {c}
       ELSE /\ at' = [at EXCEPT ![c] = thread \o "_return"]
            /\ UNCHANGED constructing
    /\ UNCHANGED <<model, model_loaded, model_loading, load_lock, constructed>>
    /\ UNCHANGED otherThanEmbed

\* An exception leaves the caller's coroutine; "async with" releases the
\* lock on the way out.  Nothing resets _model_loading.
Propagate(c) ==
    /\ at' = [at EXCEPT ![c] = "raised"]
    /\ load_lock' = IF load_lock = c THEN 0 ELSE load_lock

\* self._model = SentenceTransformer(self._model_name): it returns the
\* model, or raises (the weights cannot be fetched or read).
Construct(c, thread) ==
    /\ at[c] = thread \o "_construct"
    /\ constructing' = constructing \ {c}
    /\ \E ok \in BOOLEAN :
         IF ok
         THEN /\ model' = "SentenceTransformer"
              /\ constructed' = constructed + 1
              /\ at' = [at EXCEPT ![c] = thread \o "_set_loaded"]
              /\ UNCHANGED load_lock
         ELSE /\ Propagate(c)
              /\ UNCHANGED <<model, constructed>>
    /\ UNCHANGED <<model_loaded, model_loading>>
    /\ UNCHANGED otherThanEmbed

\* The model property: "self._model_loaded = True; return self._model".
SetLoaded(c, thread) ==
    /\ At(c, thread \o "_set_loaded", thread \o "_return")
    /\ model_loaded' = TRUE
    /\ UNCHANGED <<model, model_loading, load_lock, constructing, constructed>>
    /\ UNCHANGED otherThanEmbed

\* run_in_executor has returned inside the lock: "self._model_loading =
\* False; self._model_loaded = True", and the lock is released.
LoadDone(c) ==
    /\ At(c, "load_return", "ensured")
    /\ model_loading' = FALSE
    /\ model_loaded' = TRUE
    /\ load_lock' = 0
    /\ UNCHANGED <<model, constructing, constructed>>
    /\ UNCHANGED otherThanEmbed

\* ensure_model_loaded has returned: run_in_executor(_generate_embedding_sync).
SubmitEncode(c) ==
    /\ At(c, "ensured", "encode_thread")
    /\ UNCHANGED <<model, model_loaded, model_loading, load_lock, constructing, constructed>>
    /\ UNCHANGED otherThanEmbed

\* self.model.encode(text) with the model in hand; the embedding is returned.
Encode(c) ==
    /\ At(c, "encode_return", "done")
    /\ UNCHANGED <<model, model_loaded, model_loading, load_lock, constructing, constructed>>
    /\ UNCHANGED otherThanEmbed

NextEmbed ==
    \/ \E c \in Callers : Call(c)
    \/ \E c \in Callers : CheckLoaded(c)
    \/ \E c \in Callers : Acquire(c)
    \/ \E c \in Callers : TestUnderLock(c)
    \/ \E c \in Callers, thread \in {"load", "encode"} : ModelTest(c, thread)
    \/ \E c \in Callers, thread \in {"load", "encode"} : Construct(c, thread)
    \/ \E c \in Callers, thread \in {"load", "encode"} : SetLoaded(c, thread)
    \/ \E c \in Callers : LoadDone(c)
    \/ \E c \in Callers : SubmitEncode(c)
    \/ \E c \in Callers : Encode(c)

(***************************************************************************)
(* The text of the language model and the JSON read from it.  A text is    *)
(* the sequence of its lexical tokens, white space left out: the six       *)
(* punctuation marks of JSON, double-quoted strings and bare runs of other *)
(* characters.  The strings of the texts below hold no quote, backslash,   *)
(* newline, brace, bracket, comma or colon.                                *)
(***************************************************************************)
\* A token: its sort t and its characters v; text is used by Quoted alone.
Tok(t, v) == [v |-> v, t |-> t, text |-> <<>>]
LBrace == Tok("{", "")
RBrace == Tok("}", "")
LBrack == Tok("[", "")
RBrack == Tok("]", "")
Comma == Tok(",", "")
Colon == Tok(":", "")
Str(s) == Tok("str", s)
Bare(s) == Tok("bare", s)
\* A string literal whose content is a whole text, escaped as json.dumps
\* escapes it.
Quoted(text) == [v |-> "", t |-> "quoted", text |-> text]

CharsOf(s) == {SubSeq(s, i, i) : i \in 1..Len(s)}
Digits == CharsOf("0123456789")
\* [a-zA-Z0-9_]
WordChars == CharsOf("abcdefghijklmnopqrstuvwxyzABCDEFGHIJKLMNOPQRSTUVWXYZ0123456789_")
Literals == {"null", "true", "false"}

\* [a-zA-Z0-9_]+
IsWord(s) == Len(s) > 0 /\ CharsOf(s) \subseteq WordChars
\* A JSON number, of digits only.
IsNumber(s) ==
    Len(s) > 0 /\ CharsOf(s) \subseteq Digits /\ (Len(s) = 1 \/ SubSeq(s, 1, 1) # "0")

\* JSON values, each with its kind k: the characters v of a string, a
\* number or a literal, the text of a string that holds a whole text, the
\* elems of a list, the members of a dict (its <<key, value>> items in
\* insertion order).
JVal(k, v, text, elems, members) ==
    [v |-> v, text |-> text, k |-> k, elems |-> elems, members |-> members]
JStr(s) == JVal("str", s, <<>>, <<>>, <<>>)
JText(text) == JVal("text", "", text, <<>>, <<>>)
JNum(s) == JVal("num", s, <<>>, <<>>, <<>>)
JLit(s) == JVal("lit", s, <<>>, <<>>, <<>>)
JArr(elems) == JVal("arr", "", <<>>, elems, <<>>)
JObj(members) == JVal("obj", "", <<>>, <<>>, members)

DictKeys(items) == {items[i][1] : i \in DOMAIN items}
DictGet(items, key) == items[CHOOSE i \in DOMAIN items : items[i][1] = key][2]
\* d[key] = value
DictPut(items, key, value) ==
    IF key \in DictKeys(items)
    THEN [i \in DOMAIN items |-> IF items[i][1] = key THEN <<key, value>> ELSE items[i]]
    ELSE Append(items, <<key, value>>)

Parsed(val, next) == [ok |-> TRUE, val |-> val, next |-> next]
ParseError == [ok |-> FALSE, val |-> JLit("null"), next |-> 0]

RECURSIVE ParseValue(_, _)
RECURSIVE ParseElements(_, _, _)
RECURSIVE ParseMembers(_, _, _)
\* The JSON value that starts at token i and the index after it.
ParseValue(ts, i) ==
    IF i > Len(ts) THEN ParseError
    ELSE IF ts[i].t = "str" THEN Parsed(JStr(ts[i].v), i + 1)
    ELSE IF ts[i].t = "quoted" THEN Parsed(JText(ts[i].text), i + 1)
    ELSE IF ts[i].t = "bare" /\ IsNumber(ts[i].v) THEN Parsed(JNum(ts[i].v), i + 1)
    ELSE IF ts[i].t = "bare" /\ ts[i].v \in Literals THEN Parsed(JLit(ts[i].v), i + 1)
    ELSE IF ts[i].t = "["
    THEN IF i < Len(ts) /\ ts[i + 1].t = "]" THEN Parsed(JArr(<<>>), i + 2)
         ELSE ParseElements(ts, i + 1, <<>>)
    ELSE IF ts[i].t = "{"
    THEN IF i < Len(ts) /\ ts[i + 1].t = "}" THEN Parsed(JObj(<<>>), i + 2)
         ELSE ParseMembers(ts, i + 1, <<>>)
    ELSE ParseError

\* value ("," value)* "]": a comma is followed by a value.
ParseElements(ts, i, items) ==
    LET e == ParseValue(ts, i)
    IN IF ~e.ok \/ e.next > Len(ts) THEN ParseError
       ELSE IF ts[e.next].t = "," THEN ParseElements(ts, e.next + 1, Append(items, e.val))
       ELSE IF ts[e.next].t = "]" THEN Parsed(JArr(Append(items, e.val)), e.next + 1)
       ELSE ParseError

\* string ":" value ("," string ":" value)* "}"
ParseMembers(ts, i, items) ==
    IF i + 1 > Len(ts) \/ ts[i].t # "str" \/ ts[i + 1].t # ":" THEN ParseError
    ELSE LET e == ParseValue(ts, i + 2)
         IN IF ~e.ok \/ e.next > Len(ts) THEN ParseError
            ELSE IF ts[e.next].t = ","
            THEN ParseMembers(ts, e.next + 1, DictPut(items, ts[i].v, e.val))
            ELSE IF ts[e.next].t = "}"
            THEN Parsed(JObj(DictPut(items, ts[i].v, e.val)), e.next + 1)
            ELSE ParseError

\* json.loads(text): JSONDecodeError unless the whole text is one value.
parse_json(ts) ==
    LET p == ParseValue(ts, 1)
    IN IF p.ok /\ p.next = Len(ts) + 1 THEN p ELSE ParseError

RECURSIVE EncodeElements(_)
RECURSIVE EncodeMembers(_)
RECURSIVE json_encode(_)
\* json.dumps(value): the text that parses to the value.
json_encode(val) ==
    IF val.k = "str" THEN <<Str(val.v)>>
    ELSE IF val.k = "text" THEN <<Quoted(val.text)>>
    ELSE IF val.k \in {"num", "lit"} THEN <<Bare(val.v)>>
    ELSE IF val.k = "arr" THEN <<LBrack>> \o EncodeElements(val.elems) \o <<RBrack>>
    ELSE <<LBrace>> \o EncodeMembers(val.members) \o <<RBrace>>

EncodeElements(items) ==
    IF items = <<>> THEN <<>>
    ELSE json_encode(items[1])
         \o (IF Len(items) > 1 THEN <<Comma>> ELSE <<>>) \o EncodeElements(Tail(items))

EncodeMembers(items) ==
    IF items = <<>> THEN <<>>
    ELSE <<Str(items[1][1]), Colon>> \o json_encode(items[1][2])
         \o (IF Len(items) > 1 THEN <<Comma>> ELSE <<>>) \o EncodeMembers(Tail(items))

expected_keys == {"citation", "reply_text"}

\* jsonschema's validate against json_schema: an object whose reply_text is
\* a string and whose citation is an array of strings.
validate(val) ==
    /\ val.k = "obj"
    /\ expected_keys \subseteq DictKeys(val.members)
    /\ DictGet(val.members, "reply_text").k \in {"str", "text"}
    /\ LET c == DictGet(val.members, "citation")
       IN c.k = "arr" /\ \A i \in DOMAIN c.elems : c.elems[i].k \in {"str", "text"}

\* What one strategy gives: the dict it returns, nothing, or an exception
\* that leaves the extractor.
Found(items) == [raised |-> FALSE, ok |-> TRUE, items |-> items]
NotFound == [raised |-> FALSE, ok |-> FALSE, items |-> <<>>]
Raises == [raised |-> TRUE, ok |-> FALSE, items |-> <<>>]

\* The check of strategies 1 and 2 on a parsed value: parsed.keys() of a
\* value that is no dict is an AttributeError, which
\* "except (json.JSONDecodeError, ValidationError)" lets through.
KeysAndSchema(p) ==
    IF ~p.ok THEN NotFound
    ELSE IF p.val.k # "obj" THEN Raises
    ELSE IF expected_keys \subseteq DictKeys(p.val.members) /\ validate(p.val)
    THEN Found(p.val.members)
    ELSE NotFound

\* First attempt: json.loads(model_output.strip()).
direct_parse(ts) == KeysAndSchema(parse_json(ts))

RECURSIVE MatchEnd(_, _, _)
\* json_pattern from an opening brace: the index of the brace that closes
\* it, 0 when there is none or the nesting is deeper than the pattern's three
\* levels.
MatchEnd(ts, j, depth) ==
    IF j > Len(ts) THEN 0
    ELSE IF ts[j].t = "{"
    THEN IF depth = 3 THEN 0 ELSE MatchEnd(ts, j + 1, depth + 1)
    ELSE IF ts[j].t = "}"
    THEN IF depth = 1 THEN j ELSE MatchEnd(ts, j + 1, depth - 1)
    ELSE MatchEnd(ts, j + 1, depth)

RECURSIVE findall(_, _)
\* json_pattern.findall(model_output): the matches from left to right, none
\* inside another.
findall(ts, i) ==
    IF i > Len(ts) THEN <<>>
    ELSE IF ts[i].t = "{" /\ MatchEnd(ts, i, 0) > 0
    THEN <<SubSeq(ts, i, MatchEnd(ts, i, 0))>> \o findall(ts, MatchEnd(ts, i, 0) + 1)
    ELSE findall(ts, i + 1)

RECURSIVE FirstValid(_)
FirstValid(matches) ==
    IF matches = <<>> THEN NotFound
    ELSE LET r == KeysAndSchema(parse_json(matches[1]))
         IN IF r.ok \/ r.raised THEN r ELSE FirstValid(Tail(matches))

\* Second attempt: the first balanced object that parses and validates.
brace_scan(ts) == FirstValid(findall(ts, 1))

RECURSIVE FirstOf(_, _, _)
\* str.find: the first index from i of a token t, 0 when there is none.
FirstOf(ts, t, i) ==
    IF i > Len(ts) THEN 0 ELSE IF ts[i].t = t THEN i ELSE FirstOf(ts, t, i + 1)

RECURSIVE LastOf(_, _, _)
\* str.rfind
LastOf(ts, t, i) ==
    IF i = 0 THEN 0 ELSE IF ts[i].t = t THEN i ELSE LastOf(ts, t, i - 1)

RECURSIVE drop_trailing_commas(_)
\* re.sub(r',(\s*[}\]])', r'\1', json_text)
drop_trailing_commas(ts) ==
    IF ts = <<>> THEN <<>>
    ELSE IF ts[1].t = "," /\ Len(ts) > 1 /\ ts[2].t \in {"}", "]"}
    THEN drop_trailing_commas(Tail(ts))
    ELSE <<ts[1]>> \o drop_trailing_commas(Tail(ts))

\* re.sub(r'([{,]\s*)([a-zA-Z0-9_]+)(\s*:)', r'\1"\2"\3', json_text)
quote_keys(ts) ==
    [i \in DOMAIN ts |->
        IF /\ ts[i].t = "bare" /\ IsWord(ts[i].v)
           /\ i > 1 /\ ts[i - 1].t \in {"{", ","}
           /\ i < Len(ts) /\ ts[i + 1].t = ":"
        THEN Str(ts[i].v) ELSE ts[i]]

\* re.sub(r':\s*([^",\{\}\[\]\s][^",\{\}\[\]\s]*)\s*([,\}\]])', r': "\1"\2', json_text)
quote_values(ts) ==
    [i \in DOMAIN ts |->
        IF /\ ts[i].t = "bare"
           /\ i > 1 /\ ts[i - 1].t = ":"
           /\ i < Len(ts) /\ ts[i + 1].t \in {",", "}", "]"}
        THEN Str(ts[i].v) ELSE ts[i]]

\* Third attempt: the text from the first "{" to the last "}", repaired
\* (fix_strings finds no literal newline in these strings).  A schema
\* violation is only logged; any exception is caught.
repair_pass(ts) ==
    LET json_start == FirstOf(ts, "{", 1)
        json_end == IF json_start = 0 THEN 0 ELSE LastOf(ts, "}", Len(ts))
    IN IF json_start = 0 \/ json_end < json_start THEN NotFound
       ELSE LET json_text == quote_values(quote_keys(drop_trailing_commas(
                                 SubSeq(ts, json_start, json_end))))
                p == parse_json(json_text)
            IN IF p.ok /\ p.val.k = "obj" /\ expected_keys \subseteq DictKeys(p.val.members)
               THEN Found(p.val.members) ELSE NotFound

\* The places where key, quoted or bare, is followed by a colon and by a
\* token that follows satisfies.
FieldAt(ts, key, quoted, follows(_)) ==
    {i \in 1..(Len(ts) - 2) :
        /\ ts[i] = (IF quoted THEN Str(key) ELSE Bare(key))
        /\ ts[i + 1].t = ":"
        /\ follows(i + 2)}

LeastOf(S) == CHOOSE i \in S : \A j \in S : i <= j

\* pattern.search with the quoted key, then with the bare key: 0 for no match.
Search(ts, key, follows(_)) ==
    IF FieldAt(ts, key, TRUE, follows) # {} THEN LeastOf(FieldAt(ts, key, TRUE, follows))
    ELSE IF FieldAt(ts, key, FALSE, follows) # {} THEN LeastOf(FieldAt(ts, key, FALSE, follows))
    ELSE 0

\* The quoted items of citation_text, or else its bare ones.
citation_items(citation_text) ==
    LET quoted == SelectSeq(citation_text, LAMBDA tk : tk.t = "str")
        bare == SelectSeq(citation_text, LAMBDA tk : tk.t = "bare")
        items == IF quoted # <<>> THEN quoted ELSE bare
    IN [i \in DOMAIN items |-> JStr(items[i].v)]

\* Fourth attempt: reply_text and citation each found by a pattern of its
\* own; the citation array runs to the first "]".
field_regex(ts) ==
    LET reply_match == Search(ts, "reply_text", LAMBDA j : ts[j].t = "str")
        citation_match ==
            Search(ts, "citation", LAMBDA j : ts[j].t = "[" /\ FirstOf(ts, "]", j + 1) > 0)
        citations_ ==
            IF citation_match = 0 THEN <<>>
            ELSE citation_items(SubSeq(ts, citation_match + 3,
                                       FirstOf(ts, "]", citation_match + 3) - 1))
    IN IF reply_match = 0 THEN NotFound
       ELSE Found(<<<<"reply_text", JStr(ts[reply_match + 2].v)>>,
                    <<"citation", JArr(citations_)>>>>)

\* What the extractor gives: the dict of strategy "by", None (found FALSE),
\* or an exception.
Extracted(by, items) == [raised |-> FALSE, value |-> items, by |-> by, found |-> TRUE]
ExtractedNone == [raised |-> FALSE, value |-> <<>>, by |-> 0, found |-> FALSE]
ExtractorRaised == [raised |-> TRUE, value |-> <<>>, by |-> 1, found |-> FALSE]

\* The strategies with the field patterns tried before the repair pass.
extract_fields_before_repair(model_output) ==
    IF direct_parse(model_output).raised THEN ExtractorRaised
    ELSE IF direct_parse(model_output).ok THEN Extracted(1, direct_parse(model_output).items)
    ELSE IF brace_scan(model_output).ok THEN Extracted(2, brace_scan(model_output).items)
    ELSE IF field_regex(model_output).ok THEN Extracted(4, field_regex(model_output).items)
    ELSE IF repair_pass(model_output).ok THEN Extracted(3, repair_pass(model_output).items)
    ELSE ExtractedNone

\* extract_valid_response_json(model_output, json_schema)
extract_valid_response_json(model_output) ==
    IF direct_parse(model_output).raised THEN ExtractorRaised
    ELSE IF direct_parse(model_output).ok THEN Extracted(1, direct_parse(model_output).items)
    ELSE IF brace_scan(model_output).ok THEN Extracted(2, brace_scan(model_output).items)
    ELSE IF repair_pass(model_output).ok THEN Extracted(3, repair_pass(model_output).items)
    ELSE IF field_regex(model_output).ok THEN Extracted(4, field_regex(model_output).items)
    ELSE ExtractedNone

\* A well-formed answer of the schema.
WellFormed(reply, cited) ==
    json_encode(JObj(<<<<"reply_text", JStr(reply)>>,
                       <<"citation", JArr([i \in DOMAIN cited |-> JStr(cited[i])])>>>>))

\* "Sure!" and then an object with a comma after its last citation.
ProseWrapped(reply, cited) ==
    <<Bare("Sure!"), LBrace, Str("reply_text"), Colon, Str(reply), Comma,
      Str("citation"), Colon, LBrack, Str(cited), Comma, RBrack, RBrace>>

\* reply_text: "..." and no brace.
BraceLess(reply) == <<Bare("reply_text"), Colon, Str(reply)>>

\* Valid JSON that is no object: [], "reply", 123, null.
NonObjects == {<<Str("reply")>>, <<Bare("null")>>, <<Bare("123")>>, <<LBrack, RBrack>>}

\* {"foo": 1}
LacksKeys == <<LBrace, Str("foo"), Colon, Bare("1"), RBrace>>

\* {reply_text: reply, citation: []}
Unquoted ==
    <<LBrace, Bare("reply_text"), Colon, Bare("reply"), Comma,
      Bare("citation"), Colon, LBrack, RBrack, RBrace>>

\* {"reply_text": "reply", "citation": [1]}
NumberCited ==
    <<LBrace, Str("reply_text"), Colon, Str("reply"), Comma,
      Str("citation"), Colon, LBrack, Bare("1"), RBrack, RBrace>>

\* What the language model may answer when shown the chunks hits: an object
\* of the schema citing none, the first or all of them, the same wrapped in
\* prose, damaged or replaced by other JSON, or prose alone.
ModelOutputs(hits) ==
    LET ids == [i \in DOMAIN hits |-> hits[i].chunk_id]
    IN {WellFormed("reply", c) :
            c \in {<<>>, ids} \cup (IF ids = <<>> THEN {} ELSE {<<ids[1]>>})}
       \cup {WellFormed("hi", <<>>), ProseWrapped("hi", "c1"), BraceLess("partial answer")}
       \cup (IF ids = <<>> THEN {} ELSE {ProseWrapped("reply", ids[1])})
       \cup NonObjects
       \cup {LacksKeys, Unquoted, NumberCited, <<Bare("reply")>>}


\* The chunk ids that the extracted answer cites:
\* "citation" in answer_json and isinstance(answer_json["citation"], list).
CitedIds(answer_items) ==
    LET c == DictGet(answer_items, "citation")
    IN IF c.k = "arr" THEN [i \in DOMAIN c.elems |-> c.elems[i].v] ELSE <<>>

\* citation.rsplit("_", 1) of an item that is no str is an AttributeError.
RsplitRaises(answer_items) ==
    LET c == DictGet(answer_items, "citation")
    IN c.k = "arr" /\ \E i \in DOMAIN c.elems : c.elems[i].k # "str"

(***************************************************************************)
(* ChatService.process_rag_query, step by step (one step per await), over  *)
(* a chunk store that uploads fill while the query runs.                   *)
(***************************************************************************)
Questions == {TShort, TLong}
Budgets == {0, 10, 27, 30000}
QueryFiles == {FPdfB, FPdf, FMd}

NoInformation == "I don't have any relevant information to answer your question. Please upload some documents first."
Apology == "I'm sorry, I encountered an error while processing your question. Please try again later."

NoQuery == [project_id |-> "p1", question |-> TShort, top_k |-> 0, max_tokens |-> 0]

InitQuery ==
    /\ qpc = "idle"
    /\ query = NoQuery
    /\ question_embedding = NULL
    /\ text_chunks = <<>>
    /\ image_chunks_found = <<>>
    /\ citations = <<>>
    /\ context_parts = <<>>
    /\ total_tokens = 0
    /\ llm_calls = 0
    /\ llm_response = <<>>
    /\ answer_json = ExtractedNone
    /\ error = None
    /\ answer = ""

\* save_document from its first line to its return when nothing fails: the
\* document is completed and all its rows are committed (the steps are those
\* of CreateDocument .. SetCompleted above).
Upload(p, f) ==
    /\ p \in projects
    /\ Len(documents) < MaxQueryDocs
    /\ LET id == Len(documents) + 1
           doc == NewDocument(id, f.name, f.mime, p, f)
           seg == process_file(f)
       IN /\ documents' = update_document_status(Append(documents, doc), id, "completed")
          /\ rag_chunks' = db_commit(rag_chunks, ChunkRows(doc, seg.chunks, Embeddings(seg.chunks)))
    /\ UNCHANGED <<projects, session>>
    /\ UNCHANGED <<otherThanStore, storeVars>>

\* pgvector's <=>: 1 - cos(a, b), on the scale of Unit * Unit.
cosine_distance(a, b) ==
    Unit * Unit - (Dot(a, b) * Unit * Unit) \div (Norm(a) * Norm(b))

Min(a, b) == IF a < b THEN a ELSE b
Range(seq) == {seq[i] : i \in DOMAIN seq}

\* The candidates without the project filter.
AnyProjectCandidates(store, p) ==
    {i \in DOMAIN store : store[i].embedding # NULL}

\* WHERE project_id = :project_id AND embedding IS NOT NULL
TextCandidates(store, p) ==
    {i \in DOMAIN store : store[i].project_id = p /\ store[i].embedding # NULL}

\* select(RagChunk) ... ORDER BY embedding <=> :q LIMIT :top_k: every answer
\* the database may give, rows of equal distance coming in any order.
TextQuery(store, p, qe, top_k) ==
    LET C == TextCandidates(store, p)
        n == Min(top_k, Cardinality(C))
        dist(i) == cosine_distance(store[i].embedding, qe)
        Picks == {pick \in [1..n -> C] :
                     /\ \A i, j \in 1..n : i < j => pick[i] # pick[j]
                     /\ \A i, j \in 1..n : i < j => dist(pick[i]) <= dist(pick[j])
                     /\ \A i \in C \ Range(pick) : \A j \in 1..n : dist(pick[j]) <= dist(i)}
    IN {[j \in 1..n |-> store[pick[j]]] : pick \in Picks}

\* page_numbers = [(chunk.document_id, chunk.page_number) for chunk in text_chunks]
PageNumbers(hits) == [i \in DOMAIN hits |-> <<hits[i].document_id, hits[i].page_number>>]

\* or_(*conditions) taking only the first (document_id, page_number) pair.
FirstPageMatches(r, page_numbers) ==
    r.document_id = page_numbers[1][1] /\ r.page_number = page_numbers[1][2]

\* or_(*conditions): (document_id == doc_id) & (page_number == page_num)
PageMatches(r, page_numbers) ==
    \E i \in DOMAIN page_numbers :
        r.document_id = page_numbers[i][1] /\ r.page_number = page_numbers[i][2]

\* WHERE project_id = :project_id AND embedding IS NULL AND (conditions)
ImageQuery(store, p, page_numbers) ==
    SelectSeq(store, LAMBDA r : /\ r.project_id = p
                                /\ r.embedding = NULL
                                /\ PageMatches(r, page_numbers))

\* The early return would never be taken.
NeverEmpty(found) == FALSE

\* "if not chunks"
NoChunks(found) == found = <<>>

TextCitation(r) ==
    [chunk_id |-> r.chunk_id, page_number |-> r.page_number, source_type |-> r.source_type,
     doc_name |-> r.doc_name]

ImageCitation(r) ==
    [chunk_id |-> r.chunk_id, page_number |-> r.page_number, source_type |-> r.source_type,
     doc_name |-> r.doc_name, images_base64 |-> r.images_base64]

\* chunk.chunk_text + f"[CITATION::CHUNK_ID: {chunk.chunk_id}]"
ChunkWithCitation(r) ==
    [text |-> r.chunk_text, marker |-> "[CITATION::CHUNK_ID: " \o r.chunk_id \o "]"]

\* len(chunk_txt_with_citations)
PartLen(part) == part.text.len + Len(part.marker)

\* len(...) // 4
EstimateTokens(length) == length \div 4

\* The test that looks at the chunk alone, not at the running total.
FitsAlone(total, chunk_tokens, max_tokens) == ~(chunk_tokens > max_tokens)

\* "if total_tokens + chunk_tokens > max_tokens: continue"
Fits(total, chunk_tokens, max_tokens) == ~(total + chunk_tokens > max_tokens)

RECURSIVE BuildContext(_, _, _, _)
\* The loop over text_chunks: <<context_parts, total_tokens>> at its end.
BuildContext(hits, parts, total, max_tokens) ==
    IF hits = <<>> THEN <<parts, total>>
    ELSE LET part == ChunkWithCitation(hits[1])
             chunk_tokens == EstimateTokens(PartLen(part))
         IN IF Fits(total, chunk_tokens, max_tokens)
            THEN BuildContext(Tail(hits), Append(parts, part), total + chunk_tokens, max_tokens)
            ELSE BuildContext(Tail(hits), parts, total, max_tokens)

\* The citations of the text chunks, then those of the image chunks that
\* carry images ("if chunk.images_base64").
Citations(hits, images) ==
    [i \in DOMAIN hits |-> TextCitation(hits[i])]
    \o LET with == SelectSeq(images, LAMBDA r : r.images_base64 # NULL)
       IN [i \in DOMAIN with |-> ImageCitation(with[i])]

RECURSIVE LastIndex(_, _, _)
LastIndex(str, ch, i) ==
    IF i = 0 THEN 0 ELSE IF SubSeq(str, i, i) = ch THEN i ELSE LastIndex(str, ch, i - 1)

\* citation.split("_", 1): the split at the first underscore.
ScreenshotIdsOfFirstPart(cited) ==
    {SubSeq(cited[i], 1, Find(cited[i], "_", 1)) \o "screenshot" :
        i \in {j \in DOMAIN cited : Find(cited[j], "_", 1) > 0}}

\* citation.rsplit("_", 1): parts[0] + "_" + "screenshot" when there are two parts.
ScreenshotIds(cited) ==
    {SubSeq(cited[i], 1, LastIndex(cited[i], "_", Len(cited[i]))) \o "screenshot" :
        i \in {j \in DOMAIN cited : LastIndex(cited[j], "_", Len(cited[j])) > 0}}

\* list(set(xs)): the elements once each, in an order the hashing decides.
Orders(S) ==
    {o \in [1..Cardinality(S) -> S] : \A i, j \in DOMAIN o : i < j => o[i] # o[j]}

RECURSIVE ScreenshotImages(_, _)
\* For each screenshot id, the image of the first image citation of that id.
ScreenshotImages(ids, img_citations) ==
    IF ids = <<>> THEN <<>>
    ELSE LET found == SelectSeq(img_citations, LAMBDA c : c.chunk_id = ids[1])
         IN (IF found = <<>> THEN <<>>
             ELSE <<json_loads(found[1].images_base64)[1].base64>>)
            \o ScreenshotImages(Tail(ids), img_citations)

\* The doc_name of every citation item whose chunk_id the answer cites.
RefDocNames(cited, cits) ==
    {cits[j].doc_name : j \in {k \in DOMAIN cits : \E i \in DOMAIN cited : cited[i] = cits[k].chunk_id}}

\* The characters of the base64 string of an image.
base64_string(b) ==
    b[1] \o (IF Len(b) > 1 THEN "#" \o ToString(b[2]) \o "#" \o ToString(b[3]) ELSE "")

\* The answers process_rag_query may return for the model output and what
\* the extractor made of it: json.dumps(answer_json) after lines 394-437.
Answers(model_output, extracted, cits) ==
    LET img_citations == SelectSeq(cits, LAMBDA c : "images_base64" \in DOMAIN c)
        cited == CitedIds(extracted.value)
    IN IF ~extracted.found
       THEN {json_encode(JObj(<<<<"reply_text", JText(model_output)>>,
                                <<"citation", JArr(<<>>)>>>>))}
       ELSE {json_encode(JObj(
               LET imgs == ScreenshotImages(ids, img_citations)
                   with_images ==
                       IF imgs # <<>>
                       THEN DictPut(extracted.value, "img_base64",
                                    JArr([i \in DOMAIN imgs |-> JStr(base64_string(imgs[i]))]))
                       ELSE extracted.value
               IN IF names # <<>>
                  THEN DictPut(with_images, "doc_name",
                               JArr([i \in DOMAIN names |-> JStr(names[i])]))
                  ELSE with_images)) :
               ids \in Orders(ScreenshotIds(cited)),
               names \in Orders(RefDocNames(cited, cits))}

\* process_rag_query(db, project_id, question, top_k) is called; config's
\* chat.max_tokens is whatever the deployment set.
StartQuery(p, question, top_k, max_tokens) ==
    /\ qpc = "idle"
    /\ p \in projects
    /\ qpc' = "embed"
    /\ query' = [project_id |-> p, question |-> question, top_k |-> top_k,
                 max_tokens |-> max_tokens]
    /\ UNCHANGED <<question_embedding, text_chunks, image_chunks_found, citations,
                   context_parts, total_tokens, llm_calls, llm_response, answer_json,
                   error, answer>>
    /\ UNCHANGED otherThanQuery

\* "except Exception as e": the apologetic answer and no citation.
\* The handler leaving the citations gathered so far in its return value.
FailedWithCitations(e) ==
    /\ qpc' = "done"
    /\ answer' = Apology
    /\ UNCHANGED citations
    /\ error' = e

Failed(e) ==
    /\ qpc' = "done"
    /\ answer' = Apology
    /\ citations' = <<>>
    /\ error' = e

\* embedding_service.generate_embedding(question) and its normalization.
EmbedQuestion ==
    /\ qpc = "embed"
    /\ \E ok \in BOOLEAN :
         IF ok
         THEN /\ question_embedding' = normalize_embedding(encode(query.question))
              /\ qpc' = "text_query"
              /\ UNCHANGED <<answer, citations, error>>
         ELSE Failed("embedding") /\ UNCHANGED question_embedding
    /\ UNCHANGED <<query, text_chunks, image_chunks_found, context_parts, total_tokens,
                   llm_calls, llm_response, answer_json>>
    /\ UNCHANGED otherThanQuery

\* The similarity query; "if page_numbers" skips the image query when it
\* found nothing.
QueryText ==
    /\ qpc = "text_query"
    /\ \E ok \in BOOLEAN :
         IF ok
         THEN /\ \E hits \in TextQuery(rag_chunks, query.project_id, question_embedding,
                                      query.top_k) :
                   /\ text_chunks' = hits
                   /\ qpc' = (IF PageNumbers(hits) # <<>> THEN "image_query" ELSE "assemble")
              /\ UNCHANGED <<answer, citations, error>>
         ELSE Failed("store") /\ UNCHANGED text_chunks
    /\ UNCHANGED <<query, question_embedding, image_chunks_found, context_parts,
                   total_tokens, llm_calls, llm_response, answer_json>>
    /\ UNCHANGED otherThanQuery

\* The query for the image chunks of the pages of the text chunks.
QueryImages ==
    /\ qpc = "image_query"
    /\ \E ok \in BOOLEAN :
         IF ok
         THEN /\ image_chunks_found' = ImageQuery(rag_chunks, query.project_id,
                                                  PageNumbers(text_chunks))
              /\ qpc' = "assemble"
              /\ UNCHANGED <<answer, citations, error>>
         ELSE Failed("store") /\ UNCHANGED image_chunks_found
    /\ UNCHANGED <<query, question_embedding, text_chunks, context_parts, total_tokens,
                   llm_calls, llm_response, answer_json>>
    /\ UNCHANGED otherThanQuery

\* From "chunks = text_chunks + image_chunks" to the call of the language
\* model: the early return, the context, the citations, the API key.
Assemble ==
    /\ qpc = "assemble"
    /\ IF NoChunks(text_chunks \o image_chunks_found)
       THEN /\ qpc' = "done"
            /\ answer' = NoInformation
            /\ citations' = <<>>
            /\ UNCHANGED <<context_parts, total_tokens, error>>
       ELSE LET built == BuildContext(text_chunks, <<>>, 0, query.max_tokens)
            IN /\ context_parts' = built[1]
               /\ total_tokens' = built[2]
               /\ \E api_key \in BOOLEAN :
                    IF api_key
                    THEN /\ citations' = Citations(text_chunks, image_chunks_found)
                         /\ qpc' = "llm"
                         /\ UNCHANGED <<answer, error>>
                    ELSE Failed("ValueError")
    /\ UNCHANGED <<query, question_embedding, text_chunks, image_chunks_found, llm_calls,
                   llm_response, answer_json>>
    /\ UNCHANGED otherThanQuery

\* llm_service.generate_response([message]) and the post-processing of its
\* answer up to "return json.dumps(answer_json), citations".
CallModel ==
    /\ qpc = "llm"
    /\ llm_calls' = llm_calls + 1
    /\ \E ok \in BOOLEAN :
         IF ok
         THEN \E out \in ModelOutputs(text_chunks) :
                LET extracted == extract_valid_response_json(out)
                IN /\ llm_response' = out
                   /\ answer_json' = extracted
                   /\ IF extracted.raised
                         \/ (extracted.found /\ RsplitRaises(extracted.value))
                      THEN Failed("AttributeError")
                      ELSE /\ \E a \in Answers(out, extracted, citations) : answer' = a
                           /\ qpc' = "done"
                           /\ UNCHANGED <<citations, error>>
         ELSE Failed("llm") /\ UNCHANGED <<llm_response, answer_json>>
    /\ UNCHANGED <<query, question_embedding, text_chunks, image_chunks_found,
                   context_parts, total_tokens>>
    /\ UNCHANGED otherThanQuery

NextQuery ==
    \/ \E p \in ProjectIds : CreateProject(p)
    \/ \E p \in ProjectIds, f \in QueryFiles : Upload(p, f)
    \/ \E p \in ProjectIds, question \in Questions, top_k \in 0..MaxTopK,
         max_tokens \in Budgets : StartQuery(p, question, top_k, max_tokens)
    \/ EmbedQuestion
    \/ QueryText
    \/ QueryImages
    \/ Assemble
    \/ CallModel

(***************************************************************************)
(* The store under whole operations: uploads of files and web pages that   *)
(* succeed, email summarization, chat messages, email settings and         *)
(* delete_project.                                                         *)
(***************************************************************************)
MaxStoreDocs == 1
MaxEmails == 2
MaxEmailChunks == 2
MaxMessages == 1
MaxDeletes == 1

StoreSources == {FPdf, FImage}

\* An email as fetch_emails writes it to raw_emails.jsonl: its IMAP sequence
\* number as id, its subject, and the text of the summary sentence built
\* from its sender, subject, date and body.
Email(id, subject, text) == [id |-> id, subject |-> subject, summary_text |-> text]

\* The mailbox of a project, the same at every fetch.
Mailbox == <<Email("1", "s1", TShort), Email("2", "s2", TOther)>>

InitStore ==
    /\ chat_messages = <<>>
    /\ email_settings = <<>>
    /\ deleted = [projects |-> 0, rows |-> 0]

RECURSIVE MaxId(_)
MaxId(docs) ==
    IF docs = <<>> THEN 0
    ELSE IF docs[1].id > MaxId(Tail(docs)) THEN docs[1].id ELSE MaxId(Tail(docs))

\* str(uuid4()): an id no document has.
uuid4(docs) == MaxId(docs) + 1

\* f"email_{project_id}": the one id of a project's email document, apart
\* from every uuid.
email_doc_id(p) == IF p = "p1" THEN -1 ELSE -2

\* save_document / save_web_content and process_document from the first line
\* to the return when nothing fails: the document is completed and its rows
\* are committed together.
SaveDocument(p, src) ==
    /\ p \in projects
    /\ Cardinality({i \in DOMAIN documents : documents[i].id > 0}) < MaxStoreDocs
    /\ LET seg == process_file(src)
           doc == [NewDocument(uuid4(documents), src.name, src.mime, p, src)
                       EXCEPT !.status = "completed"]
       IN /\ ~seg.raised /\ seg.chunks # <<>>
          /\ documents' = Append(documents, doc)
          /\ rag_chunks' = db_commit(rag_chunks, ChunkRows(doc, seg.chunks, Embeddings(seg.chunks)))
    /\ UNCHANGED <<projects, session>>
    /\ UNCHANGED storeVars
    /\ UNCHANGED otherThanStore

\* RagChunk(...) of summarize_emails: with the embedding as generated, or
\* with none when generating it failed.
EmailChunk(p, e, embedded) ==
    [chunk_id |-> "email_" \o e.id, chunk_text |-> e.summary_text, page_number |-> NoPage,
     source_type |-> "email", doc_name |-> e.subject, project_id |-> p,
     embedding |-> IF embedded THEN encode(e.summary_text) ELSE NULL,
     document_id |-> email_doc_id(p), images_base64 |-> NULL]

\* POST /summarize_emails for a project with email settings: the first n
\* emails of the mailbox are fetched; the email document is created when
\* there is none; each email gives a chunk, embedded or not as how[i] says,
\* and all are committed at the end.
SummarizeEmails(p, n, how) ==
    /\ p \in projects
    /\ \E i \in DOMAIN email_settings : email_settings[i].project_id = p
    /\ Cardinality({i \in DOMAIN rag_chunks : rag_chunks[i].source_type = "email"}) + n
          <= MaxEmailChunks
    /\ documents' =
          IF \E i \in DOMAIN documents : documents[i].id = email_doc_id(p)
          THEN documents
          ELSE Append(documents,
                      [NewDocument(email_doc_id(p), "Email Collection", "application/email",
                                   p, FMd)
                          EXCEPT !.status = "completed"])
    /\ rag_chunks' = db_commit(rag_chunks, [i \in 1..n |-> EmailChunk(p, Mailbox[i], how[i])])
    /\ UNCHANGED <<projects, session>>
    /\ UNCHANGED storeVars
    /\ UNCHANGED otherThanStore

\* ChatService.add_message
add_message(p, role) ==
    /\ p \in projects
    /\ Len(chat_messages) < MaxMessages
    /\ chat_messages' = Append(chat_messages, [project_id |-> p, role |-> role])
    /\ UNCHANGED <<email_settings, deleted>>
    /\ UNCHANGED dbVars
    /\ UNCHANGED otherThanStore

\* EmailService.save_email_settings: the project's row is updated, or added
\* when it has none.
save_email_settings(p, imap_server) ==
    /\ p \in projects
    /\ email_settings' =
          IF \E i \in DOMAIN email_settings : email_settings[i].project_id = p
          THEN [i \in DOMAIN email_settings |->
                   IF email_settings[i].project_id = p
                   THEN [email_settings[i] EXCEPT !.imap_server = imap_server]
                   ELSE email_settings[i]]
          ELSE Append(email_settings, [project_id |-> p, imap_server |-> imap_server])
    /\ UNCHANGED <<chat_messages, deleted>>
    /\ UNCHANGED dbVars
    /\ UNCHANGED otherThanStore

\* A foreign key without ON DELETE CASCADE: the rows stay.
no_cascade(rows, p) == rows

\* ForeignKey("projects.id", ondelete="CASCADE"): the rows of the project go
\* with it.
on_delete_cascade(rows, p) == SelectSeq(rows, LAMBDA r : r.project_id # p)

\* ProjectService.delete_project: DELETE FROM projects WHERE id = :project_id
\* and the cascades of the foreign keys; chunks also go with their document.
delete_project(p) ==
    /\ p \in projects
    /\ deleted.projects < MaxDeletes
    /\ projects' = projects \ {p}
    /\ documents' = on_delete_cascade(documents, p)
    /\ rag_chunks' =
          SelectSeq(on_delete_cascade(rag_chunks, p),
                    LAMBDA r : \E i \in DOMAIN documents' : documents'[i].id = r.document_id)
    /\ chat_messages' = on_delete_cascade(chat_messages, p)
    /\ email_settings' = on_delete_cascade(email_settings, p)
    /\ deleted' = [projects |-> deleted.projects + 1,
                   rows |-> deleted.rows
                            + (Len(documents) - Len(documents'))
                            + (Len(rag_chunks) - Len(rag_chunks'))
                            + (Len(chat_messages) - Len(chat_messages'))
                            + (Len(email_settings) - Len(email_settings'))]
    /\ UNCHANGED session
    /\ UNCHANGED otherThanStore

NextStore ==
    \/ \E p \in ProjectIds : CreateProject(p)
    \/ \E p \in ProjectIds, src \in StoreSources : SaveDocument(p, src)
    \/ \E p \in ProjectIds, n \in 1..MaxEmails, how \in [1..MaxEmails -> BOOLEAN] :
         SummarizeEmails(p, n, how)
    \/ \E p \in ProjectIds, role \in {"user", "assistant"} : add_message(p, role)
    \/ \E p \in ProjectIds, imap_server \in {"imap.a.com", "imap.b.com"} :
         save_email_settings(p, imap_server)
    \/ \E p \in ProjectIds : delete_project(p)

(***************************************************************************)
(* Web ingestion as whole requests: save_web_content for URLs given as     *)
(* text, one after the other.                                              *)
(***************************************************************************)
MaxWebDocs == 2

\* The URLs a caller may post; the last is not a valid URL.
WebUrls ==
    {"http://a.com/x/?utm_source=y", "https://a.com/x?utm_source=z",
     "http://a.com/x;/", "http://a.com/x;", "https://b.org/?q=a%20b#top", "a.com/x"}

\* The page the GET of a URL returns: every server answers, with a page of
\* one chunk.
PageAt(url) == Page(urlparse(url), "X", TRUE, <<TShort>>)

\* save_web_content from its first line to its return or raise: the
\* document is created, and completed with its rows committed, or set to
\* error when process_web_content raised.
SaveWebContent(p, url) ==
    /\ p \in projects
    /\ Len(documents) < MaxWebDocs
    /\ LET seg == process_web_content(PageAt(url))
           doc == NewDocument(uuid4(documents), url, "text/html", p, PageAt(url))
       IN IF seg.raised
          THEN /\ documents' = Append(documents, [doc EXCEPT !.status = "error"])
               /\ UNCHANGED rag_chunks
          ELSE /\ documents' = Append(documents, [doc EXCEPT !.status = "completed"])
               /\ rag_chunks' = db_commit(rag_chunks,
                                          ChunkRows(doc, seg.chunks, Embeddings(seg.chunks)))
    /\ UNCHANGED <<projects, session>>
    /\ UNCHANGED storeVars
    /\ UNCHANGED otherThanStore

NextWeb ==
    \/ \E p \in ProjectIds : CreateProject(p)
    \/ \E p \in ProjectIds, url \in WebUrls : SaveWebContent(p, url)

(***************************************************************************)
(* Accounts: POST /auth/register and POST /auth/login.                     *)
(***************************************************************************)
MaxUsers == 3

Emails == {"a@x.com", "A@x.com", "b@x.com", "c@x.com"}
Passwords == {"pw1", "pw2"}

\* func.lower, over the letters that occur in Emails.
lower(s) == ReplaceAll(s, "A", "a")

\* get_password_hash: the hash, which is not the password.
get_password_hash(password) == "hash(" \o password \o ")"
verify_password(plain_password, hashed_password) ==
    get_password_hash(plain_password) = hashed_password

AuthResponse(op, email, status) == [status |-> status, op |-> op, email |-> email]

InitAuth ==
    /\ users = <<>>
    /\ auth_response = AuthResponse("", "", 0)

\* AuthService.get_user_by_email: the users with that email, letter case
\* ignored.
get_user_by_email(us, email) == SelectSeq(us, LAMBDA u : lower(u.email) = lower(email))

\* POST /auth/register
register(email, password) ==
    /\ Len(users) < MaxUsers
    /\ IF get_user_by_email(users, email) # <<>>
       THEN /\ auth_response' = AuthResponse("register", email, 400)
            /\ UNCHANGED users
       ELSE /\ users' = Append(users, [role |-> "user",
                                       hashed_password |-> get_password_hash(password),
                                       email |-> email])
            /\ auth_response' = AuthResponse("register", email, 201)
    /\ UNCHANGED otherThanAuth

\* POST /auth/login
login(email, password) ==
    /\ LET found == get_user_by_email(users, email)
       IN IF found # <<>> /\ verify_password(password, found[1].hashed_password)
          THEN auth_response' = AuthResponse("login", email, 200)
          ELSE auth_response' = AuthResponse("login", email, 401)
    /\ UNCHANGED users
    /\ UNCHANGED otherThanAuth

NextAuth ==
    \/ \E email \in Emails, password \in Passwords : register(email, password)
    \/ \E email \in Emails, password \in Passwords : login(email, password)

(***************************************************************************)
(* Type dispatch: save_document as a whole for files of any name and any   *)
(* declared MIME type.                                                     *)
(***************************************************************************)
MaxDispatchDocs == 2

FileNames == {"a", "a.pdf", "a.PDF", "a.txt", "a.png", "a.xyz"}
MimeTypes == {"application/pdf", "text/markdown", "application/octet-stream", "image/png",
              "text/plain"}

\* str.lower over the capital letters of FileNames.
RECURSIVE lower_name(_)
lower_name(s) ==
    IF s = "" THEN ""
    ELSE LET c == SubSeq(s, 1, 1)
         IN (CASE c = "P" -> "p" [] c = "D" -> "d" [] c = "F" -> "f" [] OTHER -> c)
            \o lower_name(SubSeq(s, 2, Len(s)))

\* os.path.splitext(file_name)[1]: from the last dot on, unless the name
\* has no dot or only leading ones.
splitext(file_name) ==
    LET dot == RFind(file_name, ".", Len(file_name))
    IN IF dot <= 1 THEN "" ELSE SubSeq(file_name, dot, Len(file_name))

\* The upload of a file: its name, its declared type and its bytes, which
\* are readable as whatever kind they are taken for or as none (corrupt).
Uploaded(file_name, file_type, corrupt) ==
    File(file_name, lower_name(splitext(file_name)), file_type, corrupt, << <<TShort>> >>)

\* save_document from its first line to its return or raise, no backend
\* failing: completed with the rows of process_file, or error when
\* process_file raised.
SaveFile(p, f) ==
    /\ p \in projects
    /\ Len(documents) < MaxDispatchDocs
    /\ LET seg == process_file(f)
           doc == NewDocument(uuid4(documents), f.name, f.mime, p, f)
       IN IF seg.raised
          THEN /\ documents' = Append(documents, [doc EXCEPT !.status = "error"])
               /\ UNCHANGED rag_chunks
          ELSE /\ documents' = Append(documents, [doc EXCEPT !.status = "completed"])
               /\ rag_chunks' = db_commit(rag_chunks,
                                          ChunkRows(doc, seg.chunks, Embeddings(seg.chunks)))
    /\ UNCHANGED <<projects, session>>
    /\ UNCHANGED storeVars
    /\ UNCHANGED otherThanStore

NextDispatch ==
    \/ \E p \in ProjectIds : CreateProject(p)
    \/ \E p \in ProjectIds, file_name \in FileNames, file_type \in MimeTypes, corrupt \in BOOLEAN :
         SaveFile(p, Uploaded(file_name, file_type, corrupt))

(***************************************************************************)
(* Requests on the one event loop.  A handler is a coroutine: it occupies  *)
(* the loop from where it is resumed to its next await, and while it is    *)
(* suspended the loop may resume another.  Work given to                   *)
(* loop.run_in_executor runs in a worker thread while its caller is        *)
(* suspended; work called directly runs on the loop.                       *)
(***************************************************************************)
MaxRequests == 2

RequestIds == 1..MaxRequests

\* The suspensions of upload_documents for one file, from process_document
\* on, and of query_chat, in the order of the code.
UploadPhases == <<"process_file", "generate_embeddings", "store_chunks">>
QueryPhases == <<"generate_embedding", "select_chunks", "generate_response",
                 "add_user_message", "add_assistant_message">>

Phases(of) == IF of = "upload" THEN UploadPhases ELSE QueryPhases

\* PDF rendering, OCR, segmentation and the inference of the embedding model.
CpuBound == {"process_file", "generate_embeddings", "generate_embedding"}

\* Where the work of a phase runs: on the loop when it is called directly
\* (process_file), in a worker thread when it goes through run_in_executor,
\* outside the process when it is an awaited database or network call.
RunsOn(phase) ==
    IF phase = "process_file" THEN "loop"
    ELSE IF phase \in {"generate_embeddings", "generate_embedding"} THEN "worker"
    ELSE "io"

NoRequest == [kind |-> "", project_id |-> "", file |-> "", step |-> 0, pending |-> FALSE]

InitLoop ==
    /\ requests = [r \in RequestIds |-> NoRequest]
    /\ running = 0
    /\ clock = 0

PhaseOf(req) ==
    IF req.kind # "" /\ req.step \in DOMAIN Phases(req.kind)
    THEN Phases(req.kind)[req.step] ELSE ""

Completed(req) == req.kind # "" /\ req.step > Len(Phases(req.kind))

\* ChatMessage(project_id, role, content, timestamp=datetime.utcnow())
ChatMessage(p, role, r, now) ==
    [project_id |-> p, role |-> role, request |-> r, timestamp |-> now]

\* The coroutine of request r runs on to its next phase: the work of that
\* phase is started, on the loop or away from it, and a row that the phase
\* commits is created with the time of now.
Enter(r) ==
    LET req == requests[r]
        next == [req EXCEPT !.step = @ + 1]
        phase == PhaseOf(next)
    IN /\ requests' = [requests EXCEPT ![r] = [next EXCEPT !.pending = phase # ""]]
       /\ running' = IF phase # "" /\ RunsOn(phase) = "loop" THEN r ELSE 0
       /\ IF phase \in {"add_user_message", "add_assistant_message"}
          THEN /\ clock' = clock + 1
               /\ chat_messages' =
                     Append(chat_messages,
                            ChatMessage(req.project_id,
                                        IF phase = "add_user_message" THEN "user" ELSE "assistant",
                                        r, clock + 1))
          ELSE UNCHANGED <<clock, chat_messages>>

\* A request arrives: an upload of one file or a chat query, for a project.
Arrive(r, of, p, file) ==
    /\ requests[r] = NoRequest
    /\ p \in projects
    /\ requests' = [requests EXCEPT ![r] =
                       [kind |-> of, project_id |-> p, file |-> file, step |-> 0,
                        pending |-> FALSE]]
    /\ UNCHANGED <<running, clock>>
    /\ UNCHANGED storeVars
    /\ UNCHANGED otherThanLoop

\* The loop, free, resumes the handler of a request that waits for nothing.
Resume(r) ==
    /\ running = 0
    /\ requests[r].kind # ""
    /\ ~requests[r].pending
    /\ ~Completed(requests[r])
    /\ Enter(r)
    /\ UNCHANGED <<email_settings, deleted>>
    /\ UNCHANGED otherThanLoop

\* The work that request r awaits in a worker thread, in the database or on
\* the network ends; the handler can be resumed.
Finish(r) ==
    /\ requests[r].pending
    /\ RunsOn(PhaseOf(requests[r])) # "loop"
    /\ requests' = [requests EXCEPT ![r].pending = FALSE]
    /\ UNCHANGED <<running, clock>>
    /\ UNCHANGED storeVars
    /\ UNCHANGED otherThanLoop

\* The work that the handler of request r does on the loop itself ends, and
\* the handler runs on to its next await.
RunOn(r) ==
    /\ running = r
    /\ requests[r].pending
    /\ RunsOn(PhaseOf(requests[r])) = "loop"
    /\ Enter(r)
    /\ UNCHANGED <<email_settings, deleted>>
    /\ UNCHANGED otherThanLoop

NextLoop ==
    \/ \E p \in ProjectIds : CreateProject(p)
    \/ \E r \in RequestIds, p \in ProjectIds, file \in {"a.pdf", "e.png", "b.md"} :
         Arrive(r, "upload", p, file)
    \/ \E r \in RequestIds, p \in ProjectIds : Arrive(r, "query", p, "")
    \/ \E r \in RequestIds : Resume(r)
    \/ \E r \in RequestIds : Finish(r)
    \/ \E r \in RequestIds : RunOn(r)

vars == <<dbVars, reqVars, embedVars, queryVars, storeVars, authVars, loopVars>>

Init == InitIngest /\ InitEmbed /\ InitQuery /\ InitStore /\ InitAuth /\ InitLoop
Next == NextIngest
Spec == Init /\ [][Next]_vars
SpecEmbed == Init /\ [][NextEmbed]_vars
SpecQuery == Init /\ [][NextQuery]_vars
SpecStore == Init /\ [][NextStore]_vars
SpecWeb == Init /\ [][NextWeb]_vars
SpecAuth == Init /\ [][NextAuth]_vars
SpecDispatch == Init /\ [][NextDispatch]_vars
SpecLoop == Init /\ [][NextLoop]_vars

(***************************************************************************)
(* Properties of ingestion (specification Spec).                           *)
(***************************************************************************)
\* What process_document / process_web_content segment a document's content
\* into, and the rows they store for it.
Segmentation(src) ==
    IF "url" \in DOMAIN src THEN process_web_content(src) ELSE process_file(src)

AllRows(d) ==
    LET seg == Segmentation(documents[d].src)
    IN IF seg.raised THEN <<>>
       ELSE ChunkRows(documents[d], seg.chunks, Embeddings(seg.chunks))

StoredRows(d) == SelectSeq(rag_chunks, LAMBDA r : r.document_id = d)

DocumentIds == 1..Len(documents)

\* C1: in every reachable state, also after a failure or a crash while a
\* document's rows are being added, the chunk store holds either none of the
\* document's chunk rows or all of them, regular and image chunks alike.
C1_AtomicChunkSet ==
    \A d \in DocumentIds : StoredRows(d) = <<>> \/ StoredRows(d) = AllRows(d)

\* A document of several rows stored whole, next to one whose processing
\* failed after segmentation and of which nothing is stored.
C1_Witness ==
    \E d, e \in DocumentIds :
        /\ Len(AllRows(d)) >= 2 /\ StoredRows(d) = AllRows(d)
        /\ Len(AllRows(e)) >= 2 /\ StoredRows(e) = <<>>
        /\ documents[e].status = "error"

StatusMoves ==
    {<<"pending", "processing">>, <<"processing", "completed">>, <<"processing", "error">>}

StatusStep ==
    /\ Len(documents') >= Len(documents)
    /\ \A d \in 1..Len(documents') :
          IF d > Len(documents)
          THEN documents'[d].status = "pending"
          ELSE \/ documents'[d].status = documents[d].status
               \/ <<documents[d].status, documents'[d].status>> \in StatusMoves

StatusOrder ==
    /\ pc \in {"segment", "embed", "add", "rename"} => documents[document].status = "processing"
    /\ \A d \in DocumentIds :
          documents[d].status = "completed" => StoredRows(d) = AllRows(d)

\* C2: a document is created pending, is processing before segmentation
\* starts, is completed only after all its chunk rows are committed, and its
\* status only moves pending -> processing -> (completed or error), never
\* again once it is completed or error.
C2_StatusLifecycle == [][StatusStep]_vars /\ []StatusOrder

\* A completed document with its rows stored, and a document in error.
C2_Witness ==
    \E d, e \in DocumentIds :
        /\ documents[d].status = "completed" /\ StoredRows(d) # <<>>
        /\ documents[e].status = "error"

\* C3: when segmentation, embedding or chunk storage has failed for a file
\* (and the database takes the status update), save_document ends with the
\* document in status error and the exception reaches the caller.  The
\* corrupt DOCX refutes it: _process_docx swallows the exception.
C3_FailureEndsInError ==
    \A i \in DOMAIN outcome :
        (faults = 0 /\ outcome[i].failed /\ outcome[i].result # "none")
            => /\ outcome[i].result = "raised"
               /\ documents[outcome[i].doc].status = "error"

\* The documents_processed entries of the first n files of the batch: those
\* of the files whose save_document returned, in the order of the files.
RECURSIVE Reported(_)
Reported(n) ==
    IF n = 0 THEN <<>>
    ELSE Reported(n - 1) \o
         (IF outcome[n].result = "returned"
          THEN LET doc == documents[outcome[n].doc]
                   seg == Segmentation(doc.src)
               IN ProcessingResults(doc, seg.chunks, seg.pages_processed)
          ELSE <<>>)

InLoop == kind = "upload" /\ pc \notin {"idle", "get_project", "crashed"}
Responded == kind = "upload" /\ pc = "idle" /\ response # NoResponse

\* C4: the files of a batch are processed one at a time in the given order
\* and a failure of one never keeps the others from being processed: the
\* response is a success response that reports every file processed
\* successfully and no file whose processing failed.
C4_PartialBatch ==
    /\ InLoop =>
          /\ \A i \in DOMAIN files :
                /\ i < idx => outcome[i].result # "none"
                /\ i > idx => outcome[i] = NoOutcome
          /\ documents_processed = Reported(IF idx > Len(files) THEN Len(files) ELSE idx - 1)
    /\ Responded =>
          \/ /\ response.status # 200
             /\ \A i \in DOMAIN files : outcome[i] = NoOutcome
          \/ /\ response.status = 200 /\ response.success
             /\ \A i \in DOMAIN files : outcome[i].result # "none"
             /\ response.documents_processed = Reported(Len(files))
             /\ response.total_chunks = SumChunks(Reported(Len(files)))
             /\ Len(response.documents_processed) =
                   Cardinality({i \in DOMAIN files :
                                   /\ outcome[i].result = "returned"
                                   /\ ~outcome[i].failed
                                   /\ StoredRows(outcome[i].doc) # <<>>})

\* [valid, corrupt, valid]: the response reports 2 documents.
C4_Witness ==
    /\ Responded /\ response.status = 200
    /\ Len(files) = 3 /\ files[2].corrupt
    /\ outcome[1].result = "returned" /\ outcome[2].result = "raised"
    /\ outcome[3].result = "returned"
    /\ Len(response.documents_processed) = 2

(***************************************************************************)
(* Properties of the embedding service (specification SpecEmbed).          *)
(***************************************************************************)
\* C5: under any interleaving of concurrent callers the model is constructed
\* at most once: no construction starts while one is in progress or after
\* one has completed.  Refuted after a load that raised: _model_loading
\* stays set, later callers skip the load under the lock and each constructs
\* the model in its own encode thread.
C5_AtMostOneLoad == Cardinality(constructing) + constructed <= 1

\* C6: whenever ensure_model_loaded has returned normally to a caller the
\* model is loaded, so no encode starts against an unloaded model, also for
\* callers that arrive after an earlier load attempt raised.  Refuted by
\* exactly those callers.
C6_EnsuredMeansLoaded ==
    \A c \in Callers : at[c] \in {"ensured", "encode_thread"} => model_loaded

(***************************************************************************)
(* Properties of retrieval (specification SpecQuery).                      *)
(***************************************************************************)
Returned == qpc = "done"

IsScreenshot(r) == r.chunk_text = ScreenshotLabel

\* The text chunks that the returned citation list cites.
CitedTextChunks ==
    {i \in DOMAIN text_chunks :
        i <= Len(citations) /\ citations[i] = TextCitation(text_chunks[i])}

\* C7: whenever the returned citation list contains a text chunk from page P
\* of document D and a screenshot chunk is stored for (D, P), the list also
\* contains a citation of that screenshot chunk carrying its image payload.
C7_ScreenshotCited ==
    Returned =>
        \A i \in CitedTextChunks : \A k \in DOMAIN rag_chunks :
            LET r == rag_chunks[k]
            IN (/\ IsScreenshot(r)
                /\ r.document_id = text_chunks[i].document_id
                /\ r.page_number = text_chunks[i].page_number)
               => \E j \in DOMAIN citations :
                     /\ citations[j] = ImageCitation(r)
                     /\ r.images_base64 # NULL
                     /\ LET image == json_loads(citations[j].images_base64)[1]
                        IN /\ image.base64[1] = r.doc_name
                           /\ image.base64[2] = r.page_number

\* Text chunks of two documents are cited, each with its page's screenshot.
C7_Witness ==
    /\ Returned
    /\ \E i, j \in CitedTextChunks : text_chunks[i].document_id # text_chunks[j].document_id
    /\ Cardinality({j \in DOMAIN citations : "images_base64" \in DOMAIN citations[j]}) >= 2

OwnChunks(store, p) == SelectSeq(store, LAMBDA r : r.project_id = p)

\* Each query gives what it would give if the store held the project's
\* chunks only.
IsolationStep ==
    /\ (qpc = "text_query" /\ qpc' \in {"image_query", "assemble"}) =>
          text_chunks' \in TextQuery(OwnChunks(rag_chunks, query.project_id),
                                     query.project_id, question_embedding, query.top_k)
    /\ (qpc = "image_query" /\ qpc' = "assemble") =>
          image_chunks_found' = ImageQuery(OwnChunks(rag_chunks, query.project_id),
                                           query.project_id, PageNumbers(text_chunks))

\* What reaches the context and the citation list is of the project's chunks.
OnlyOwnChunks ==
    LET own == OwnChunks(rag_chunks, query.project_id)
    IN /\ \A r \in Range(text_chunks) \cup Range(image_chunks_found) :
             r.project_id = query.project_id
       /\ \A i \in DOMAIN context_parts :
             \E r \in Range(own) \cap Range(text_chunks) :
                 context_parts[i] = ChunkWithCitation(r)
       /\ \A j \in DOMAIN citations :
             \E r \in Range(own) :
                 \/ r \in Range(text_chunks) /\ citations[j] = TextCitation(r)
                 \/ r \in Range(image_chunks_found) /\ citations[j] = ImageCitation(r)

\* C8: every chunk that a query for project P places in the context or in
\* the citation list has project_id = P, and the result of the query is the
\* one it has without the chunks of other projects, whatever document names,
\* chunk_ids or page numbers they share with chunks of P.
C8_ProjectIsolation == [][IsolationStep]_vars /\ []OnlyOwnChunks

\* A query has cited a chunk whose chunk_id and page a chunk of another
\* project shares.
C8_Witness ==
    /\ Returned /\ citations # <<>>
    /\ \E r \in Range(rag_chunks) :
          /\ r.project_id # query.project_id
          /\ \E j \in DOMAIN citations :
                citations[j].chunk_id = r.chunk_id /\ citations[j].page_number = r.page_number

EmptyProject == OwnChunks(rag_chunks, query.project_id) = <<>>

RECURSIVE SumLen(_)
SumLen(parts) == IF parts = <<>> THEN 0 ELSE PartLen(parts[1]) + SumLen(Tail(parts))

RECURSIVE SumTokens(_)
SumTokens(parts) ==
    IF parts = <<>> THEN 0 ELSE EstimateTokens(PartLen(parts[1])) + SumTokens(Tail(parts))

\* C10 as claimed: the estimated token count (4 characters per token) of
\* the chunk texts with their markers, as assembled into the context, never
\* exceeds B = max_tokens.  Refuted by rounding: the code adds up the
\* estimates of the chunks, each rounded down.
C10_AssembledWithinBudget ==
    qpc \in {"llm", "done"} => EstimateTokens(SumLen(context_parts)) <= query.max_tokens

\* C10 as amended: the sum, over the chunks included in the context, of each
\* chunk's own estimate (the length of its text and marker, divided by 4 and
\* rounded down) never exceeds B; the estimate of the included texts taken
\* together exceeds B by less than the number of included chunks.
C10_ChunkEstimatesWithinBudget ==
    qpc \in {"llm", "done"} =>
        /\ total_tokens = SumTokens(context_parts)
        /\ SumTokens(context_parts) <= query.max_tokens
        /\ context_parts # <<>> =>
              EstimateTokens(SumLen(context_parts)) < query.max_tokens + Len(context_parts)

\* A chunk is in the context and another was left out for the budget.
C10_Witness ==
    /\ Returned
    /\ context_parts # <<>>
    /\ Len(context_parts) < Len(text_chunks)
    /\ total_tokens > 0

(***************************************************************************)
(* Properties of the answer extraction (specification SpecQuery).          *)
(***************************************************************************)
\* The language model answered and the extractor was called on its text.
ExtractorRan == Returned /\ llm_calls > 0 /\ error # "llm"

\* What each of the four strategies gives on its own, in the order of the
\* source.
StrategyResults(ts) == <<direct_parse(ts), brace_scan(ts), repair_pass(ts), field_regex(ts)>>

\* The first strategy that succeeds, 0 when none does.
FirstSuccess(ts) ==
    LET S == {n \in 1..4 : StrategyResults(ts)[n].ok}
    IN IF S = {} THEN 0 ELSE LeastOf(S)

\* C11: the extractor tries direct parse, balanced-brace scan, repair pass
\* and field patterns in that order and returns what the first strategy that
\* succeeds gives; a well-formed object with both keys is returned unchanged
\* by the direct parse; the prose-wrapped object with a trailing comma fails
\* the direct parse and is recovered as the same object without the comma;
\* the text without braces that contains reply_text: "..." is recovered by
\* the field patterns alone.
C11_FirstStrategyWins ==
    (ExtractorRan /\ ~answer_json.raised) =>
        /\ answer_json.by = FirstSuccess(llm_response)
        /\ answer_json.found <=> FirstSuccess(llm_response) # 0
        /\ answer_json.found =>
              answer_json.value = StrategyResults(llm_response)[answer_json.by].items
        /\ (parse_json(llm_response).ok /\ validate(parse_json(llm_response).val)) =>
              /\ answer_json.by = 1
              /\ json_encode(JObj(answer_json.value)) = llm_response
        /\ llm_response = WellFormed("hi", <<>>) =>
              /\ answer_json.by = 1
              /\ answer_json.value = <<<<"reply_text", JStr("hi")>>, <<"citation", JArr(<<>>)>>>>
        /\ llm_response = ProseWrapped("hi", "c1") =>
              /\ ~direct_parse(llm_response).ok
              /\ answer_json.found
              /\ json_encode(JObj(answer_json.value)) = WellFormed("hi", <<"c1">>)
        /\ llm_response = BraceLess("partial answer") =>
              /\ answer_json.by = 4
              /\ \A n \in 1..3 : ~StrategyResults(llm_response)[n].ok
              /\ answer_json.value = <<<<"reply_text", JStr("partial answer")>>,
                                       <<"citation", JArr(<<>>)>>>>

\* The prose-wrapped object with the trailing comma came back from the
\* repair pass.
C11_Witness ==
    /\ ExtractorRan
    /\ llm_response = ProseWrapped("hi", "c1")
    /\ answer_json.found /\ answer_json.by = 3

\* C12: for every model output, extract_valid_response_json returns a
\* record with reply_text and citation or None and never raises, also for
\* valid JSON that is no object and for objects without the expected keys;
\* malformed model output never becomes an error of the query.  Refuted by
\* the outputs that are JSON arrays, strings, numbers or null.
C12_ExtractorNeverRaises ==
    ExtractorRan =>
        /\ ~answer_json.raised
        /\ answer_json.found => expected_keys \subseteq DictKeys(answer_json.value)
        /\ error = None

\* C13: when the extractor returns None for the model output,
\* process_rag_query answers with the raw model text verbatim.  Refuted:
\* the answer is the JSON text of {"reply_text": <raw text>, "citation": []}.
C13_FallbackIsRawText ==
    (ExtractorRan /\ error = None /\ ~answer_json.found) => answer = llm_response

\* The failures of the three backends of a query.
BackendFailures == {"store", "embedding", "llm"}

PlainText(s) == <<Bare(s)>>

\* C15: when extraction succeeds the answer that process_rag_query returns
\* is the reply_text of the extracted record, and when it fails it is the
\* fallback text.  Refuted: the answer is json.dumps of the whole record.
C15_AnswerIsReplyText ==
    (ExtractorRan /\ error = None) =>
        IF answer_json.found
        THEN answer = PlainText(DictGet(answer_json.value, "reply_text").v)
        ELSE answer = llm_response

(***************************************************************************)
(* Properties of the stored rows (specification SpecStore)                 *)
(***************************************************************************)
\* C16: every chunk row stored with an embedding, whichever path stored it,
\* holds the generated vector after unit normalization (the raw vector when
\* its norm is zero).
C16_StoredVectorsNormalized ==
    \A i \in DOMAIN rag_chunks :
        rag_chunks[i].embedding # NULL =>
            rag_chunks[i].embedding = normalize_embedding(encode(rag_chunks[i].chunk_text))

\* A whole-page screenshot row carrying its image.
IsScreenshotRow(r) == r.chunk_text = ScreenshotLabel /\ r.images_base64 # NULL

\* C17: a stored chunk has no embedding if and only if it is a whole-page
\* screenshot chunk carrying an image; text, image-OCR and email chunks all
\* have one.
C17_OnlyScreenshotsUnembedded ==
    \A i \in DOMAIN rag_chunks :
        (rag_chunks[i].embedding = NULL) <=> IsScreenshotRow(rag_chunks[i])

\* C18: no two chunk rows of the same document have the same chunk_id.
C18_ChunkIdUniqueInDocument ==
    \A i, j \in DOMAIN rag_chunks :
        (i # j /\ rag_chunks[i].document_id = rag_chunks[j].document_id)
            => rag_chunks[i].chunk_id # rag_chunks[j].chunk_id

\* C19: every chunk stored for a standalone image file carries the image as
\* its payload.
C19_ImageFileChunksCarryImage ==
    \A i \in DOMAIN rag_chunks :
        rag_chunks[i].source_type = "image" =>
            /\ rag_chunks[i].images_base64 # NULL
            /\ json_loads(rag_chunks[i].images_base64)[1].base64 = <<rag_chunks[i].doc_name>>

RowsOf(rows, p) == SelectSeq(rows, LAMBDA r : r.project_id = p)

\* C20: a step that deletes project P leaves no document, chunk (email
\* summaries are chunks), chat message or email settings of P, and leaves
\* the rows of every other project as they were.
C20_DeleteCascades ==
    [][\A p \in ProjectIds :
          (p \in projects /\ p \notin projects') =>
              /\ RowsOf(documents', p) = <<>>
              /\ RowsOf(rag_chunks', p) = <<>>
              /\ RowsOf(chat_messages', p) = <<>>
              /\ RowsOf(email_settings', p) = <<>>
              /\ \A q \in ProjectIds \ {p} :
                    /\ RowsOf(documents', q) = RowsOf(documents, q)
                    /\ RowsOf(rag_chunks', q) = RowsOf(rag_chunks, q)
                    /\ RowsOf(chat_messages', q) = RowsOf(chat_messages, q)
                    /\ RowsOf(email_settings', q) = RowsOf(email_settings, q)
                    /\ (q \in projects') = (q \in projects)]_vars

\* A project was deleted together with rows of several tables while another
\* project keeps a document and its chunks.
C20_Witness ==
    /\ deleted.projects = 1
    /\ deleted.rows >= 4
    /\ Cardinality(projects) = 1
    /\ \E q \in projects : RowsOf(documents, q) # <<>> /\ RowsOf(rag_chunks, q) # <<>>
    /\ \A i \in DOMAIN documents : documents[i].project_id \in projects

(***************************************************************************)
(* Properties of web ingestion (specification SpecWeb)                     *)
(***************************************************************************)
WebDocuments == {i \in DOMAIN documents : documents[i].type = "text/html"}

\* normalize_url on the text of a URL.
Normalized(url) == urlunparse(normalize_url(urlparse(url)))

\* C21: no project holds two web documents whose URLs have the same
\* normalized form, and no two of its web chunks have the same chunk_id.
C21_WebDeduplicated ==
    /\ \A i, j \in WebDocuments :
          (i # j /\ documents[i].project_id = documents[j].project_id
                 /\ validate_url(urlparse(documents[i].name)))
             => Normalized(documents[i].name) # Normalized(documents[j].name)
    /\ \A i, j \in DOMAIN rag_chunks :
          (i # j /\ rag_chunks[i].source_type = "web"
                 /\ rag_chunks[i].project_id = rag_chunks[j].project_id)
             => rag_chunks[i].chunk_id # rag_chunks[j].chunk_id

\* The non-tracking fields of a query string.
Untracked(qs) == SelectSeq(Fields(qs), LAMBDA kv : ~StartsWith(kv[1], "utm_"))

\* Two URLs that differ at most in http versus https, one trailing slash on
\* the path, their utm_ parameters and their fragment.
DifferInIgnoredParts(u, v) ==
    LET a == urlsplit(u)
        b == urlsplit(v)
    IN /\ a.scheme \in {"http", "https"} /\ b.scheme \in {"http", "https"}
       /\ a.netloc = b.netloc
       /\ (a.path = b.path \/ a.path = b.path \o "/" \/ b.path = a.path \o "/")
       /\ Untracked(a.query) = Untracked(b.query)

\* C22: for the URLs ingested, normalize_url gives one string for URLs that
\* differ only in scheme (http, https), trailing slash, utm_ parameters and
\* fragment, the string is https://a.com/x for the two URLs of the
\* example, and normalizing a normalized URL changes nothing.
C22_NormalizeUrl ==
    \A i, j \in WebDocuments :
        LET u == documents[i].name
            v == documents[j].name
        IN validate_url(urlparse(u)) =>
              /\ Normalized(Normalized(u)) = Normalized(u)
              /\ (u = "http://a.com/x/?utm_source=y" => Normalized(u) = "https://a.com/x")
              /\ (u = "https://a.com/x?utm_source=z" => Normalized(u) = "https://a.com/x")
              /\ DifferInIgnoredParts(u, v) => Normalized(u) = Normalized(v)

\* The URLs of the example are stored under the one name https://a.com/x.
NormalizedExample ==
    \A i \in WebDocuments :
        documents[i].name \in {"http://a.com/x/?utm_source=y", "https://a.com/x?utm_source=z"}
            => \A k \in DOMAIN rag_chunks :
                  rag_chunks[k].document_id = documents[i].id
                      => rag_chunks[k].doc_name = "https://a.com/x"

(***************************************************************************)
(* Properties of the accounts (specification SpecAuth)                     *)
(***************************************************************************)
\* C23: once a user exists, a registration with an email no user has is
\* answered with 403 and adds no user.
C23_SecondRegistrationRejected ==
    [][(/\ auth_response'.op = "register"
        /\ users # <<>>
        /\ get_user_by_email(users, auth_response'.email) = <<>>)
          => (auth_response'.status = 403 /\ users' = users)]_vars

(***************************************************************************)
(* Properties of the auxiliary answer fields (specification SpecQuery)     *)
(***************************************************************************)
\* The query returned the record the extractor found, with its additions.
AnsweredFromRecord == ExtractorRan /\ error = None /\ answer_json.found

\* The members of the JSON object that the answer is.
ReturnedRecord == parse_json(answer).val.members

\* The strings of a list-valued field of the returned record, none when the
\* field is absent.
ReturnedList(key) ==
    IF key \in DictKeys(ReturnedRecord)
    THEN [i \in DOMAIN DictGet(ReturnedRecord, key).elems |->
             DictGet(ReturnedRecord, key).elems[i].v]
    ELSE <<>>

ImageCitations == SelectSeq(citations, LAMBDA c : "images_base64" \in DOMAIN c)

\* The id with the text after its last underscore replaced by "screenshot".
DerivedId(citation) == SubSeq(citation, 1, RFind(citation, "_", Len(citation))) \o "screenshot"

\* The derived ids that are the chunk_id of a retrieved image citation.
MatchedIds ==
    LET cited == CitedIds(answer_json.value)
    IN {DerivedId(cited[i]) : i \in {j \in DOMAIN cited : RFind(cited[j], "_", Len(cited[j])) > 0}}
       \cap {ImageCitations[k].chunk_id : k \in DOMAIN ImageCitations}

ImageOf(c) == base64_string(json_loads(c.images_base64)[1].base64)

CitedDocNames ==
    LET cited == CitedIds(answer_json.value)
    IN {citations[k].doc_name :
           k \in {j \in DOMAIN citations : \E i \in DOMAIN cited : cited[i] = citations[j].chunk_id}}

\* C24: img_base64 holds exactly one image for each distinct derived
\* screenshot id that is the chunk_id of a retrieved image citation, the
\* image of a citation of that id, and doc_name holds the document name of
\* each cited retrieved chunk exactly once.
C24_AuxiliaryFields ==
    AnsweredFromRecord =>
        /\ Len(ReturnedList("img_base64")) = Cardinality(MatchedIds)
        /\ \A d \in MatchedIds :
              \E i \in DOMAIN ReturnedList("img_base64") :
                 \E k \in DOMAIN ImageCitations :
                    /\ ImageCitations[k].chunk_id = d
                    /\ ReturnedList("img_base64")[i] = ImageOf(ImageCitations[k])
        /\ Len(ReturnedList("doc_name")) = Cardinality(CitedDocNames)
        /\ \A n \in CitedDocNames :
              \E i \in DOMAIN ReturnedList("doc_name") : ReturnedList("doc_name")[i] = n

\* An answer citing a text chunk while screenshots of two documents of the
\* same name were retrieved under one chunk_id: one image, one name.
C24_Witness ==
    /\ AnsweredFromRecord
    /\ Cardinality(MatchedIds) = 1
    /\ Len(ImageCitations) = 2
    /\ Len(ReturnedList("img_base64")) = 1
    /\ Len(ReturnedList("doc_name")) = 1

\* C28: for every retrieved text chunk that the answer cites, the image of
\* the retrieved screenshot chunk of the same document and page is in
\* img_base64, also when documents of the same file name share chunk ids.
C28_CitedPageScreenshotIncluded ==
    AnsweredFromRecord =>
        \A i \in DOMAIN text_chunks : \A k \in DOMAIN image_chunks_found :
            LET t == text_chunks[i]
                r == image_chunks_found[k]
                cited == CitedIds(answer_json.value)
            IN (/\ \E j \in DOMAIN cited : cited[j] = t.chunk_id
                /\ r.document_id = t.document_id
                /\ r.page_number = t.page_number
                /\ r.images_base64 # NULL)
               => \E j \in DOMAIN ReturnedList("img_base64") :
                     ReturnedList("img_base64")[j] = ImageOf(r)

(***************************************************************************)
(* Properties of type dispatch (specification SpecDispatch)                *)
(***************************************************************************)
\* The type a recognised extension implies, "unknown" for any other.
TypeOfExtension(ext) ==
    CASE ext = ".pdf" -> "pdf"
      [] ext \in {".md", ".markdown"} -> "markdown"
      [] ext = ".txt" -> "text"
      [] ext = ".docx" -> "docx"
      [] ext \in {".jpg", ".jpeg", ".png", ".gif", ".bmp", ".webp"} -> "image"
      [] OTHER -> "unknown"

\* The type a recognised MIME type implies, "unknown" for any other.
TypeOfMime(mime) ==
    CASE mime = "application/pdf" -> "pdf"
      [] mime = "text/markdown" -> "markdown"
      [] mime = "text/plain" -> "text"
      [] mime = "application/vnd.openxmlformats-officedocument.wordprocessingml.document" -> "docx"
      [] StartsWith(mime, "image/") -> "image"
      [] OTHER -> "unknown"

ExtensionFirst(ext, mime) ==
    IF TypeOfExtension(ext) # "unknown" THEN TypeOfExtension(ext) ELSE TypeOfMime(mime)

\* C25: every stored file was dispatched by its extension when that is a
\* recognised one and by its declared MIME type otherwise; a file of which
\* neither is recognised has no chunks and was completed without an error.
C25_ExtensionBeforeMime ==
    \A i \in DOMAIN documents :
        LET d == documents[i]
            ext == lower_name(splitext(d.name))
            expected == ExtensionFirst(ext, d.type)
        IN /\ determine_source_type(ext, d.type) = expected
           /\ \A k \in DOMAIN rag_chunks :
                 rag_chunks[k].document_id = d.id => rag_chunks[k].source_type = expected
           /\ expected = "unknown" =>
                 /\ d.status = "completed"
                 /\ \A k \in DOMAIN rag_chunks : rag_chunks[k].document_id # d.id

(***************************************************************************)
(* Properties of the requests on the event loop (specification SpecLoop)   *)
(***************************************************************************)
\* C26: CPU-bound work never occupies the event loop: while the PDF
\* rendering, OCR, segmentation or embedding of a request is in progress,
\* the loop is free of that request and can resume another.
C26_CpuWorkOffLoop ==
    \A r \in RequestIds :
        (requests[r].pending /\ PhaseOf(requests[r]) \in CpuBound) => running # r

\* get_chat_history: the messages of a project ordered by timestamp.  The
\* clock gives every message another instant, so the order is that of
\* creation.
get_chat_history(p) == SelectSeq(chat_messages, LAMBDA m : m.project_id = p)

\* C29: each completed chat query has left exactly two messages in the
\* history of its project, its question and directly after it its answer.
C29_QuestionThenAnswer ==
    \A r \in RequestIds :
        (requests[r].kind = "query" /\ Completed(requests[r])) =>
            LET history == get_chat_history(requests[r].project_id)
                own == {i \in DOMAIN history : history[i].request = r}
            IN /\ Cardinality(own) = 2
               /\ \E i \in own :
                     /\ i + 1 \in own
                     /\ history[i].role = "user"
                     /\ history[i + 1].role = "assistant"

(***************************************************************************)
(* Properties of the end of save_document and of the upload summary        *)
(* (specification Spec).                                                   *)
(***************************************************************************)
\* The files (or the page) whose save_document / save_web_content has
\* returned or raised after it had created the document row.
Ended == {i \in DOMAIN outcome : outcome[i].result # "none" /\ outcome[i].doc # 0}

\* C27: once save_document or save_web_content has returned or raised, the
\* document row it created is in status completed or error, never pending
\* or processing, whichever step failed.  Refuted: the write to disk and
\* the update to "processing" stand before the try block, and the update
\* to "error" inside the except clause may fail itself.
C27_EndsCompletedOrError ==
    \A i \in Ended : documents[outcome[i].doc].status \in {"completed", "error"}

\* The files among the first n of the batch whose document row is in status
\* completed, in the order of the batch; with stored, those that have chunk
\* rows as well.
RECURSIVE CompletedFiles(_, _)
CompletedFiles(n, stored) ==
    IF n = 0 THEN <<>>
    ELSE CompletedFiles(n - 1, stored) \o
         (IF /\ outcome[n].doc # 0
             /\ documents[outcome[n].doc].status = "completed"
             /\ (stored => StoredRows(outcome[n].doc) # <<>>)
          THEN <<n>> ELSE <<>>)

\* The summary has one entry for each of the given files, in their order.
EntriesAre(fs) ==
    /\ Len(response.documents_processed) = Len(fs)
    /\ \A j \in DOMAIN fs :
          response.documents_processed[j].document_name = documents[outcome[fs[j]].doc].name

Summarized == Responded /\ response.status = 200

\* C30 as stated: when upload_documents returns, documents_processed has an
\* entry for a file of the batch if and only if the document row created
\* for the file is completed.  Refuted by a file of unsupported type.
C30_ReportedIffCompleted ==
    Summarized => EntriesAre(CompletedFiles(Len(files), FALSE))

\* C30: when upload_documents returns, documents_processed has an entry for
\* a file of the batch if and only if the document row created for the file
\* is completed and chunk rows are stored for it; a file that yields no
\* chunks is completed and not reported.
C30_ReportedIffCompletedWithChunks ==
    Summarized =>
        /\ EntriesAre(CompletedFiles(Len(files), TRUE))
        /\ \A j \in DOMAIN response.documents_processed :
              response.documents_processed[j].chunks_created > 0

\* A batch with a file of unsupported type: its document is completed, and
\* the summary reports the other file only.
C30_Witness ==
    /\ Summarized
    /\ Len(files) = 2
    /\ outcome[1].result = "returned" /\ outcome[2].result = "returned"
    /\ files[1] = FUnknown /\ documents[outcome[1].doc].status = "completed"
    /\ StoredRows(outcome[1].doc) = <<>>
    /\ files[2] = FPdf /\ documents[outcome[2].doc].status = "completed"
    /\ Len(response.documents_processed) = 1
    /\ response.documents_processed[1].document_name = "a.pdf"

====
